---- MODULE Spec2Model ----
(***************************************************************************)
(* The per-process memory space of the kernel (process/mem_space/mod.rs):  *)
(* the two gap indices, the mapping index, vmem_usage and the brk          *)
(* pointers, with map, unmap, set_brk_init, set_brk_ptr and fork.          *)
(*                                                                         *)
(* Addresses are byte addresses on a scaled-down machine: a page is        *)
(* PAGE_SIZE bytes, the user region ends at PROCESS_END, and usize         *)
(* arithmetic is taken modulo ADDR_SPACE.  Sizes are page counts.          *)
(* gap.rs, mapping.rs and util/container/map.rs are modelled from their    *)
(* documented contract.                                                    *)
(***************************************************************************)
EXTENDS Integers, FiniteSets, Sequences, TLC

(* ------------------------------ bounds -------------------------------- *)

\* Number of pages below PROCESS_END (page 0 included).
EndPage == 4
\* Largest size, in pages, passed to map; unmap is passed one page more.
MaxPages == 3
\* Number of calls made on the memory space.
MaxSteps == 3
\* Largest index of the allocation made to fail in one call (0: none fails).
MaxOom == 7
\* Number of frames of the physical allocator.
MaxFrames == 3
\* Number of calls made on a residence.
MaxCalls == 5
\* Number of threads that call alloc_page and free_page concurrently.
MaxThreads == 3

(* ----------------------------- constants ------------------------------ *)

\* memory::PAGE_SIZE, scaled.
PAGE_SIZE == 2
\* memory::ALLOC_BEGIN: the second page (0x1000 with 4096-byte pages).
ALLOC_BEGIN == PAGE_SIZE
\* memory::PROCESS_END: the end of the user region.
PROCESS_END == EndPage * PAGE_SIZE
\* The modulus of usize: the user region and a kernel region above it.
ADDR_SPACE == PROCESS_END + (MaxPages + 2) * PAGE_SIZE

MAPPING_FLAG_WRITE == 1
MAPPING_FLAG_EXEC == 2
MAPPING_FLAG_USER == 4
MAPPING_FLAG_NOLAZY == 8
MAPPING_FLAG_SHARED == 16

\* The null pointer.
NULL == 0
\* Option::None for an address.
NoAddr == 0 - 1

Min(a, b) == IF a < b THEN a ELSE b

\* usize arithmetic wraps at ADDR_SPACE.
Wrap(x) == x % ADDR_SPACE

\* ptr.add(pages * PAGE_SIZE)
AddPages(ptr, pages) == Wrap(ptr + pages * PAGE_SIZE)

\* ptr.is_aligned_to(PAGE_SIZE)
IsAligned(ptr) == ptr % PAGE_SIZE = 0

\* util::align: the next aligned address at or above ptr.
AlignUp(ptr) == Wrap(ptr + ((PAGE_SIZE - (ptr % PAGE_SIZE)) % PAGE_SIZE))

\* usize::div_ceil
DivCeil(a, b) == (a + b - 1) \div b

(* ------------------------------ residence ----------------------------- *)

Normal == [kind |-> "Normal", off |-> 0]

\* MapResidence::offset_add
offset_add(res, pages) ==
    CASE res.kind = "File" -> [res EXCEPT !.off = @ + pages * PAGE_SIZE]
      [] res.kind = "Swap" -> [res EXCEPT !.off = @ + pages]
      [] OTHER -> res

(* --------------------------- Map<K, V> -------------------------------- *)

EmptyMap == [x \in {} |-> 0]

\* Map::insert: the value stored under an existing key is replaced.
MapInsert(f, k, v) == [x \in DOMAIN f \cup {k} |-> IF x = k THEN v ELSE f[x]]

\* Map::remove
MapRemove(f, k) == [x \in DOMAIN f \ {k} |-> f[x]]

\* Map::append: every entry of g is moved into f.
MapAppend(f, g) ==
    [x \in DOMAIN f \cup DOMAIN g |-> IF x \in DOMAIN g THEN g[x] ELSE f[x]]

\* Map::cmp_get with the range comparator of get_gap_for_ptr and
\* get_mapping_for_ptr: the binary search ends on an entry whose range
\* [begin, begin + size pages) holds ptr.  size(b) is the size of entry b.
\* When ranges overlap, the entry reached depends on the tree's shape, and
\* the search misses an entry e when it turns right at an entry that begins
\* after e and ends at or below ptr.
RangeEnd(begin, size) == Wrap(begin + size * PAGE_SIZE)

InRange(begin, size, ptr) == ptr >= begin /\ ptr < RangeEnd(begin, size)

CmpGet(sizes, ptr) ==
    LET keys == DOMAIN sizes
        hit == {b \in keys : InRange(b, sizes[b], ptr)}
        missed(e) == \E o \in keys :
                        o > e /\ RangeEnd(o, sizes[o]) <= ptr /\ ~InRange(o, sizes[o], ptr)
    IN  IF hit = {} THEN {NoAddr}
        ELSE hit \cup (IF \A e \in hit : missed(e) THEN {NoAddr} ELSE {})

(* ------------------------------- MemGap ------------------------------- *)

\* MemGap::get_page_offset_for
get_page_offset_for(begin, addr) == Wrap(addr - begin) \div PAGE_SIZE

\* MemGap::consume: what stays free of the gap (begin, size) around the
\* window of `size_` pages at page offset `off`; each side a set of at most
\* one gap.
consume(begin, size, off, size_) ==
    [left  |-> IF off > 0 THEN {[begin |-> begin, size |-> off]} ELSE {},
     right |-> IF size - (off + size_) > 0
               THEN {[begin |-> AddPages(begin, off + size_),
                      size |-> size - (off + size_)]}
               ELSE {}]

\* MemGap::merge: fuses the gap with an address-adjacent gap; a gap that is
\* not adjacent is left out.
merge(gap, other) ==
    IF gap.begin = RangeEnd(other.begin, other.size)
    THEN [begin |-> other.begin, size |-> gap.size + other.size]
    ELSE IF RangeEnd(gap.begin, gap.size) = other.begin
    THEN [begin |-> gap.begin, size |-> gap.size + other.size]
    ELSE gap

(* ----------------------------- MemMapping ----------------------------- *)

\* MemMapping::partial_unmap: cuts `pages` pages at page offset `begin` out
\* of the mapping m beginning at mb.
partial_unmap(mb, m, begin, pages) ==
    [prev |-> IF begin > 0
              THEN {[begin |-> mb, size |-> begin, flags |-> m.flags,
                     residence |-> m.residence]}
              ELSE {},
     gap  |-> IF pages > 0
              THEN {[begin |-> AddPages(mb, begin), size |-> pages]}
              ELSE {},
     next |-> IF m.size - (begin + pages) > 0
              THEN {[begin |-> AddPages(mb, begin + pages),
                     size |-> m.size - (begin + pages),
                     flags |-> m.flags,
                     residence |-> offset_add(m.residence, begin + pages)]}
              ELSE {}]

MappingValue(r) == [size |-> r.size, flags |-> r.flags, residence |-> r.residence]

(* ---------------------------- MemSpaceState --------------------------- *)

EmptyState == [gaps |-> EmptyMap, gaps_size |-> {}, mappings |-> EmptyMap]

\* MemSpaceState::insert_gap on the indices st, `allocs` allocations having
\* been made by the call so far; allocation number `oom` fails.
insert_gap(st, gap, allocs, oom) ==
    IF allocs + 1 = oom
    THEN [st |-> st, allocs |-> allocs + 1, err |-> "gaps"]
    ELSE IF allocs + 2 = oom
    THEN [st |-> [st EXCEPT !.gaps =
                        MapRemove(MapInsert(st.gaps, gap.begin, gap.size), gap.begin)],
          allocs |-> allocs + 2, err |-> "gaps_size"]
    ELSE [st |-> [st EXCEPT !.gaps = MapInsert(st.gaps, gap.begin, gap.size),
                            !.gaps_size = @ \cup {<<gap.size, gap.begin>>}],
          allocs |-> allocs + 2, err |-> ""]

\* MemSpaceState::remove_gap
remove_gap(st, gap_begin) ==
    IF gap_begin \in DOMAIN st.gaps
    THEN [st EXCEPT !.gaps = MapRemove(st.gaps, gap_begin),
                    !.gaps_size = @ \ {<<st.gaps[gap_begin], gap_begin>>}]
    ELSE st

\* The order of the keys (size, begin) of gaps_size.
KeyLeq(a, b) == a[1] < b[1] \/ (a[1] = b[1] /\ a[2] <= b[2])

\* MemSpaceState::get_gap: the first entry of gaps_size at or after
\* (size, null), looked up in gaps.  res is "none", "panic" (the unwrap of a
\* missing gap, or the debug assertion on its size) or "some".
get_gap(st, size, debug) ==
    LET range == {e \in st.gaps_size : KeyLeq(<<size, NULL>>, e)}
        first == CHOOSE e \in range : \A o \in range : KeyLeq(e, o)
    IN  IF range = {} THEN [res |-> "none"]
        ELSE IF first[2] \notin DOMAIN st.gaps THEN [res |-> "panic"]
        ELSE IF debug /\ st.gaps[first[2]] < size THEN [res |-> "panic"]
        ELSE [res |-> "some", begin |-> first[2], size |-> st.gaps[first[2]]]

\* MemSpaceState::get_gap_for_ptr: the begin addresses the search can end on.
get_gap_for_ptr(st, ptr) ==
    CmpGet(st.gaps, ptr)

\* MemSpaceState::get_mapping_for_ptr and get_mapping_mut_for_ptr
get_mapping_for_ptr(st, ptr) ==
    CmpGet([b \in DOMAIN st.mappings |-> st.mappings[b].size], ptr)

(* -------------------------- MemSpaceTransaction ----------------------- *)

EmptyTransaction ==
    [buffer_state |-> EmptyState, remove_mappings |-> {}, remove_gaps |-> {}]

\* A variant of commit that moves the buffered inserts into the live state
\* before it applies the removals.
commit_inserts_first(t, on) ==
    LET g0 == MapAppend(on.gaps, t.buffer_state.gaps)
        s0 == on.gaps_size \cup t.buffer_state.gaps_size
        m0 == MapAppend(on.mappings, t.buffer_state.mappings)
        rg == t.remove_gaps \cap DOMAIN g0
    IN  [gaps      |-> [x \in DOMAIN g0 \ rg |-> g0[x]],
         gaps_size |-> s0 \ {<<g0[g], g>> : g \in rg},
         mappings  |-> [x \in DOMAIN m0 \ t.remove_mappings |-> m0[x]]]

\* MemSpaceTransaction::commit
commit(t, on) ==
    LET m1 == [x \in DOMAIN on.mappings \ t.remove_mappings |-> on.mappings[x]]
        rg == t.remove_gaps \cap DOMAIN on.gaps
        g1 == [x \in DOMAIN on.gaps \ rg |-> on.gaps[x]]
        s1 == on.gaps_size \ {<<on.gaps[g], g>> : g \in rg}
    IN  [gaps      |-> MapAppend(g1, t.buffer_state.gaps),
         gaps_size |-> s1 \cup t.buffer_state.gaps_size,
         mappings  |-> MapAppend(m1, t.buffer_state.mappings)]

(* ------------------------------ unmap_impl ---------------------------- *)

\* The walk of unmap_impl: w.t the transaction, w.i the page index, w.freed
\* the pages freed, w.cut the mappings cut, w.allocs the allocations made,
\* w.err the allocation that failed ("" while none has).
StartWalk == [t |-> EmptyTransaction, i |-> 0, freed |-> 0, cut |-> 0,
              allocs |-> 0, err |-> ""]

Failed(w, stage, allocs) == [w EXCEPT !.err = stage, !.allocs = allocs]

\* unmap_impl, "Merge next gap" and the staged insert of the gap.
unmap_gap_next(st, oom, w, gap) ==
    LET one(n) ==
          IF n = NoAddr
          THEN LET r == insert_gap(w.t.buffer_state, gap, w.allocs, oom)
               IN  IF r.err # "" THEN Failed(w, r.err, r.allocs)
                   ELSE [w EXCEPT !.t.buffer_state = r.st, !.allocs = r.allocs]
          ELSE IF w.allocs + 1 = oom THEN Failed(w, "remove_gaps", w.allocs + 1)
          ELSE LET g2 == merge(gap, [begin |-> n, size |-> st.gaps[n]])
                   r == insert_gap(w.t.buffer_state, g2, w.allocs + 1, oom)
               IN  IF r.err # "" THEN Failed(w, r.err, r.allocs)
                   ELSE [w EXCEPT !.t.buffer_state = r.st, !.allocs = r.allocs,
                                  !.t.remove_gaps = @ \cup {n}]
    IN  {one(n) : n \in get_gap_for_ptr(st, RangeEnd(gap.begin, gap.size))}

\* unmap_impl, "Insert gap": the freed window, merged with the gap before it.
unmap_gap(st, oom, w, gap) ==
    LET w1 == [w EXCEPT !.freed = @ + gap.size]
        prevs == IF gap.begin # NULL
                 THEN get_gap_for_ptr(st, Wrap(gap.begin - 1))
                 ELSE {NoAddr}
        one(p) ==
          IF p = NoAddr THEN unmap_gap_next(st, oom, w1, gap)
          ELSE IF w1.allocs + 1 = oom
          THEN {Failed(w1, "remove_gaps", w1.allocs + 1)}
          ELSE unmap_gap_next(st, oom,
                   [w1 EXCEPT !.allocs = @ + 1, !.t.remove_gaps = @ \cup {p}],
                   merge(gap, [begin |-> p, size |-> st.gaps[p]]))
    IN  UNION {one(p) : p \in prevs}

\* A variant of unmap_cut that cuts the mapping from the page met to its end,
\* whatever the number of pages left in the request.
unmap_cut_to_end(st, size, brk, oom, w, mb, page_ptr) ==
    LET m == st.mappings[mb]
        begin == Wrap(page_ptr - mb) \div PAGE_SIZE
        pages == m.size - begin
    IN  {[w EXCEPT !.t.remove_mappings = @ \cup {mb}, !.allocs = @ + 1,
                   !.i = @ + pages, !.cut = @ + 1, !.freed = @ + pages]}

\* unmap_impl, one iteration on the mapping beginning at mb that holds
\* page_ptr.
unmap_cut(st, size, brk, oom, w, mb, page_ptr) ==
    LET m == st.mappings[mb]
        begin == Wrap(page_ptr - mb) \div PAGE_SIZE
        pages == Min(size - w.i, m.size - begin)
        pu == partial_unmap(mb, m, begin, pages)
        a1 == w.allocs + 1
        a2 == a1 + Cardinality(pu.prev)
        a3 == a2 + Cardinality(pu.next)
        ins(f, rs) == IF rs = {} THEN f
                      ELSE LET r == CHOOSE r \in rs : TRUE
                           IN  MapInsert(f, r.begin, MappingValue(r))
        w3 == [w EXCEPT !.t.remove_mappings = @ \cup {mb},
                        !.t.buffer_state.mappings = ins(ins(@, pu.prev), pu.next),
                        !.allocs = a3, !.i = @ + pages, !.cut = @ + 1]
    IN  IF a1 = oom THEN {Failed(w, "remove_mappings", a1)}
        ELSE IF pu.prev # {} /\ a2 = oom THEN {Failed(w, "mappings", a2)}
        ELSE IF pu.next # {} /\ a3 = oom THEN {Failed(w, "mappings", a3)}
        ELSE IF brk THEN {w3}
        ELSE IF pu.gap = {} THEN {w3}
        ELSE unmap_gap(st, oom, w3, CHOOSE g \in pu.gap : TRUE)

\* unmap_impl, one iteration of the loop on the page of index w.i: the page
\* is skipped when no mapping holds it.
unmap_iter(st, ptr, size, brk, oom, w) ==
    LET page_ptr == AddPages(ptr, w.i)
        one(mb) ==
          IF mb = NoAddr THEN {[w EXCEPT !.i = @ + 1]}
          ELSE unmap_cut(st, size, brk, oom, w, mb, page_ptr)
    IN  UNION {one(mb) : mb \in get_mapping_for_ptr(st, page_ptr)}

\* unmap_impl, the loop `while i < size`, left at the first failure.
RECURSIVE unmap_walk(_, _, _, _, _, _)
unmap_walk(st, ptr, size, brk, oom, w) ==
    IF w.err # "" \/ w.i >= size THEN {w}
    ELSE UNION {unmap_walk(st, ptr, size, brk, oom, w2) :
                   w2 \in unmap_iter(st, ptr, size, brk, oom, w)}

\* MemSpace::unmap_impl: the outcomes of the walk over `size` pages from ptr.
unmap_impl(st, ptr, size, brk, oom) ==
    unmap_walk(st, ptr, size, brk, oom, StartWalk)

(* --------------------------- physical frames -------------------------- *)

\* The frames of the physical allocator, and the one frame of a Static
\* residence, which does not come from the allocator.
Frames == 1..MaxFrames
StaticFrame == MaxFrames + 1
NoFrame == 0

\* A Static residence of one pre-existing page.
Static == [kind |-> "Static", off |-> 0, pages |-> <<StaticFrame>>]

\* The physical memory: the PhysRefCounter (the frames with a count, all
\* positive), the frames the buddy allocator holds, and whether a frame was
\* given back to the allocator that it already held or that still has a count.
PhysMem(rc, bd, bad) == [ref_counter |-> rc, buddy |-> bd, bad_free |-> bad]

RefCount(rc, f) == IF f \in DOMAIN rc THEN rc[f] ELSE 0

\* PhysRefCounter::increment
increment(rc, f) == MapInsert(rc, f, RefCount(rc, f) + 1)

\* PhysRefCounter::decrement: no effect on an absent frame, the entry is
\* removed when its count reaches zero.
decrement(rc, f) ==
    IF f \notin DOMAIN rc THEN rc
    ELSE IF rc[f] = 1 THEN MapRemove(rc, f)
    ELSE MapInsert(rc, f, rc[f] - 1)

\* PhysRefCounter::can_free
can_free(rc, f) == f \notin DOMAIN rc

\* buddy::free
buddy_free(pm, f) ==
    [pm EXCEPT !.buddy = @ \cup {f},
               !.bad_free = @ \/ f \in pm.buddy \/ RefCount(pm.ref_counter, f) > 0]

\* A variant of MapResidence::free that gives the frame back whatever its
\* count.
MapResidence_free_always(pm, f) ==
    buddy_free([pm EXCEPT !.ref_counter = decrement(@, f)], f)

\* MapResidence::alloc: `fail` is the step that runs out of memory ("" for
\* none, "buddy" or "increment").  The allocator hands out its lowest frame.
MapResidence_alloc(pm, fail) ==
    IF pm.buddy = {} \/ fail = "buddy"
    THEN [pm |-> pm, res |-> "err", frame |-> NoFrame]
    ELSE LET ptr == CHOOSE f \in pm.buddy : \A g \in pm.buddy : f <= g
             pm1 == [pm EXCEPT !.buddy = @ \ {ptr}]
         IN  IF fail = "increment"
             THEN [pm |-> buddy_free(pm1, ptr), res |-> "err", frame |-> NoFrame]
             ELSE [pm |-> [pm1 EXCEPT !.ref_counter = increment(@, ptr)],
                   res |-> "ok", frame |-> ptr]

\* MapResidence::free
MapResidence_free(pm, f) ==
    LET pm1 == [pm EXCEPT !.ref_counter = decrement(@, f)]
    IN  IF can_free(pm1.ref_counter, f) THEN buddy_free(pm1, f) ELSE pm1

\* MapResidence::alloc_page; the File and Swap residences are todo!().
alloc_page(pm, residence, off, fail) ==
    CASE residence.kind = "Normal" -> MapResidence_alloc(pm, fail)
      [] residence.kind = "Static" ->
            IF off < Len(residence.pages)
            THEN [pm |-> pm, res |-> "ok", frame |-> residence.pages[off + 1]]
            ELSE MapResidence_alloc(pm, fail)
      [] OTHER -> [pm |-> pm, res |-> "panic", frame |-> NoFrame]

\* MapResidence::free_page
free_page(pm, residence, off, f) ==
    CASE residence.kind = "Normal" -> [pm |-> MapResidence_free(pm, f), res |-> "ok"]
      [] residence.kind = "Static" ->
            IF off >= Len(residence.pages)
            THEN [pm |-> MapResidence_free(pm, f), res |-> "ok"]
            ELSE [pm |-> pm, res |-> "ok"]
      [] OTHER -> [pm |-> pm, res |-> "panic"]

(* -------------------------------- MemSpace ---------------------------- *)

\* A variant of is_valid that does not look at the alignment.
is_valid_any_alignment(c, addr) ==
    CASE c = "Fixed" -> addr <= PROCESS_END
      [] OTHER       -> TRUE

\* MapConstraint::is_valid
is_valid(c, addr) ==
    CASE c = "Fixed" -> addr <= PROCESS_END /\ IsAligned(addr)
      [] c = "Hint"  -> IsAligned(addr)
      [] OTHER       -> TRUE

\* The outcome of a call: the indices st and vmem_usage it leaves, its
\* result res ("ok", "err" or "panic"), the address out it returns, the
\* step at which it failed, and the number of mappings it cut.
Outcome(st, vmem, res, out, stage, cut, allocs) ==
    [st |-> [gaps |-> st.gaps, gaps_size |-> st.gaps_size, mappings |-> st.mappings],
     vmem_usage |-> vmem, res |-> res, out |-> out, stage |-> stage, cut |-> cut,
     allocs |-> allocs]

\* MemSpace::map from "let addr = ..." on: the gap (or fictive gap) and the
\* offset are chosen, t is the transaction so far, vmem the local vmem_usage.
map_place(st, vmem_usage, t, allocs, gap, off, size, flags, residence, vmem, cut, oom, debug) ==
    LET addr == AddPages(gap.begin, off)
        cg == consume(gap.begin, gap.size, off, size)
        st1 == remove_gap(st, gap.begin)
        r1 == IF cg.left = {} THEN [st |-> t.buffer_state, allocs |-> allocs, err |-> ""]
              ELSE insert_gap(t.buffer_state, CHOOSE g \in cg.left : TRUE, allocs, oom)
        r2 == IF r1.err # "" \/ cg.right = {} THEN r1
              ELSE insert_gap(r1.st, CHOOSE g \in cg.right : TRUE, r1.allocs, oom)
        mapping == [size |-> size, flags |-> flags, residence |-> residence]
        t2 == [t EXCEPT !.buffer_state =
                 [r2.st EXCEPT !.mappings = MapInsert(@, addr, mapping)]]
    IN  IF r2.err # "" THEN Outcome(st1, vmem_usage, "err", NoAddr, r2.err, cut, r2.allocs)
        ELSE IF debug /\ vmem + size >= ADDR_SPACE
        THEN Outcome(st1, vmem_usage, "panic", NoAddr, "vmem_usage", cut, r2.allocs)
        ELSE IF r2.allocs + 1 = oom
        THEN Outcome(st1, vmem_usage, "err", NoAddr, "mappings", cut, r2.allocs + 1)
        ELSE IF r2.allocs + 2 = oom
        THEN Outcome(st1, vmem_usage, "err", NoAddr, "map_default", cut, r2.allocs + 2)
        ELSE Outcome(commit(t2, st1), Wrap(vmem + size), "ok", addr, "", cut,
                     r2.allocs + 2)

\* A variant of map_get_gap that places the mapping at the end of the gap.
map_get_gap_at_end(st, vmem_usage, size, flags, residence, oom, debug) ==
    LET g == get_gap(st, size, debug)
    IN  IF g.res = "none" THEN Outcome(st, vmem_usage, "err", NoAddr, "no_gap", 0, 0)
        ELSE IF g.res = "panic" THEN Outcome(st, vmem_usage, "panic", NoAddr, "get_gap", 0, 0)
        ELSE map_place(st, vmem_usage, EmptyTransaction, 0,
                       [begin |-> g.begin, size |-> g.size],
                       IF g.size > size THEN g.size - size ELSE 0, size, flags,
                       residence, vmem_usage, 0, oom, debug)

\* MemSpace::map for a gap found by get_gap.
map_get_gap(st, vmem_usage, size, flags, residence, oom, debug) ==
    LET g == get_gap(st, size, debug)
    IN  IF g.res = "none" THEN Outcome(st, vmem_usage, "err", NoAddr, "no_gap", 0, 0)
        ELSE IF g.res = "panic" THEN Outcome(st, vmem_usage, "panic", NoAddr, "get_gap", 0, 0)
        ELSE map_place(st, vmem_usage, EmptyTransaction, 0,
                       [begin |-> g.begin, size |-> g.size], 0, size, flags,
                       residence, vmem_usage, 0, oom, debug)

\* MemSpace::map: the set of outcomes of map(c(addr), size, flags, residence)
\* on the indices st, with allocation number oom failing.
map(st, vmem_usage, c, addr, size, flags, residence, oom, debug) ==
    IF ~is_valid(c, addr) THEN {Outcome(st, vmem_usage, "err", NoAddr, "invalid", 0, 0)}
    ELSE IF c = "Fixed"
    THEN LET one(w) ==
               IF w.err # "" THEN Outcome(st, vmem_usage, "err", NoAddr, w.err, w.cut, w.allocs)
               ELSE IF debug /\ vmem_usage < w.freed
               THEN Outcome(st, vmem_usage, "panic", NoAddr, "vmem_usage", w.cut, w.allocs)
               ELSE map_place(st, vmem_usage, w.t, w.allocs,
                              [begin |-> addr, size |-> size],
                              get_page_offset_for(addr, addr), size, flags, residence,
                              Wrap(vmem_usage - w.freed), w.cut, oom, debug)
         IN  {one(w) : w \in unmap_impl(st, addr, size, FALSE, oom)}
    ELSE IF c = "Hint"
    THEN LET one(gb) ==
               IF gb = NoAddr THEN Outcome(st, vmem_usage, "err", NoAddr, "no_gap", 0, 0)
               ELSE LET off == get_page_offset_for(gb, addr)
                    IN  IF off + size <= st.gaps[gb]
                        THEN map_place(st, vmem_usage, EmptyTransaction, 0,
                                       [begin |-> gb, size |-> st.gaps[gb]], off, size,
                                       flags, residence, vmem_usage, 0, oom, debug)
                        ELSE map_get_gap(st, vmem_usage, size, flags, residence, oom,
                                         debug)
         IN  {one(gb) : gb \in get_gap_for_ptr(st, addr)}
    ELSE {map_get_gap(st, vmem_usage, size, flags, residence, oom, debug)}

\* A variant of unmap that takes the whole range off vmem_usage, whether or
\* not a mapping held its pages.
unmap_counting_range(st, vmem_usage, ptr, size, brk, oom, debug) ==
    IF ~IsAligned(ptr) THEN {Outcome(st, vmem_usage, "err", NoAddr, "invalid", 0, 0)}
    ELSE LET one(w) ==
               IF w.err # "" THEN Outcome(st, vmem_usage, "err", NoAddr, w.err, w.cut, w.allocs)
               ELSE IF debug /\ vmem_usage < size
               THEN Outcome(st, vmem_usage, "panic", NoAddr, "vmem_usage", w.cut, w.allocs)
               ELSE Outcome(commit(w.t, st), Wrap(vmem_usage - size), "ok",
                            NoAddr, "", w.cut, w.allocs)
         IN  {one(w) : w \in unmap_impl(st, ptr, size, brk, oom)}

\* A variant of unmap that commits what was staged before the failure.
unmap_committing_on_error(st, vmem_usage, ptr, size, brk, oom, debug) ==
    IF ~IsAligned(ptr) THEN {Outcome(st, vmem_usage, "err", NoAddr, "invalid", 0, 0)}
    ELSE LET one(w) ==
               IF w.err # "" THEN Outcome(commit(w.t, st), vmem_usage, "err", NoAddr,
                                          w.err, w.cut, w.allocs)
               ELSE IF debug /\ vmem_usage < w.freed
               THEN Outcome(st, vmem_usage, "panic", NoAddr, "vmem_usage", w.cut, w.allocs)
               ELSE Outcome(commit(w.t, st), Wrap(vmem_usage - w.freed), "ok",
                            NoAddr, "", w.cut, w.allocs)
         IN  {one(w) : w \in unmap_impl(st, ptr, size, brk, oom)}

\* MemSpace::unmap: the set of outcomes of unmap(ptr, size, brk).
unmap(st, vmem_usage, ptr, size, brk, oom, debug) ==
    IF ~IsAligned(ptr) THEN {Outcome(st, vmem_usage, "err", NoAddr, "invalid", 0, 0)}
    ELSE LET one(w) ==
               IF w.err # "" THEN Outcome(st, vmem_usage, "err", NoAddr, w.err, w.cut, w.allocs)
               ELSE IF debug /\ vmem_usage < w.freed
               THEN Outcome(st, vmem_usage, "panic", NoAddr, "vmem_usage", w.cut, w.allocs)
               ELSE Outcome(commit(w.t, st), Wrap(vmem_usage - w.freed), "ok",
                            NoAddr, "", w.cut, w.allocs)
         IN  {one(w) : w \in unmap_impl(st, ptr, size, brk, oom)}

\* A variant of set_brk_ptr whose shrinking branch does not compare the
\* pointer with brk_init.
set_brk_ptr_unchecked_below(st, vmem_usage, brk_init, brk_ptr, ptr, oom, debug) ==
    LET keep(o) == [o |-> o, brk_ptr |-> brk_ptr]
        done(o) == [o |-> o, brk_ptr |-> IF o.res = "ok" THEN ptr ELSE brk_ptr]
        flags == MAPPING_FLAG_WRITE + MAPPING_FLAG_USER
    IN  IF ptr >= brk_ptr
        THEN IF ptr > PROCESS_END
             THEN {keep(Outcome(st, vmem_usage, "err", NoAddr, "invalid", 0, 0))}
             ELSE LET begin == AlignUp(brk_ptr)
                      pages == DivCeil(Wrap(ptr - begin), PAGE_SIZE)
                  IN  IF debug /\ ptr < begin
                      THEN {keep(Outcome(st, vmem_usage, "panic", NoAddr, "pages", 0, 0))}
                      ELSE IF pages = 0
                      THEN {keep(Outcome(st, vmem_usage, "ok", NoAddr, "", 0, 0))}
                      ELSE {done(o) : o \in map(st, vmem_usage, "Fixed", begin, pages,
                                                flags, Normal, oom, debug)}
        ELSE LET begin == AlignUp(ptr)
                 pages == DivCeil(Wrap(begin - ptr), PAGE_SIZE)
             IN  IF pages = 0
                 THEN {keep(Outcome(st, vmem_usage, "ok", NoAddr, "", 0, 0))}
                 ELSE {done(o) : o \in unmap(st, vmem_usage, begin, pages, TRUE,
                                             oom, debug)}

\* MemSpace::set_brk_ptr: the set of outcomes, each with the brk_ptr it leaves.
set_brk_ptr(st, vmem_usage, brk_init, brk_ptr, ptr, oom, debug) ==
    LET keep(o) == [o |-> o, brk_ptr |-> brk_ptr]
        done(o) == [o |-> o, brk_ptr |-> IF o.res = "ok" THEN ptr ELSE brk_ptr]
        flags == MAPPING_FLAG_WRITE + MAPPING_FLAG_USER
    IN  IF ptr >= brk_ptr
        THEN IF ptr > PROCESS_END
             THEN {keep(Outcome(st, vmem_usage, "err", NoAddr, "invalid", 0, 0))}
             ELSE LET begin == AlignUp(brk_ptr)
                      pages == DivCeil(Wrap(ptr - begin), PAGE_SIZE)
                  IN  IF debug /\ ptr < begin
                      THEN {keep(Outcome(st, vmem_usage, "panic", NoAddr, "pages", 0, 0))}
                      ELSE IF pages = 0
                      THEN {keep(Outcome(st, vmem_usage, "ok", NoAddr, "", 0, 0))}
                      ELSE {done(o) : o \in map(st, vmem_usage, "Fixed", begin, pages,
                                                flags, Normal, oom, debug)}
        ELSE IF ptr < brk_init
             THEN {keep(Outcome(st, vmem_usage, "err", NoAddr, "invalid", 0, 0))}
             ELSE LET begin == AlignUp(ptr)
                      pages == DivCeil(Wrap(begin - ptr), PAGE_SIZE)
                  IN  IF pages = 0
                      THEN {keep(Outcome(st, vmem_usage, "ok", NoAddr, "", 0, 0))}
                      ELSE {done(o) : o \in unmap(st, vmem_usage, begin, pages, TRUE,
                                                  oom, debug)}

\* The bits of the x86 page-fault error code.
PAGE_FAULT_PRESENT == 1
PAGE_FAULT_WRITE == 2
PAGE_FAULT_USER == 4

\* x & bit != 0, for a bit that is a power of two.
HasBit(x, bit) == (x \div bit) % 2 = 1

\* util::down_align
down_align(ptr) == ptr - (ptr % PAGE_SIZE)

\* MemMapping::map on the page at `page_offset` of the mapping m beginning at
\* mb, called through oom::wrap, which retries until the allocation succeeds:
\* the page keeps the frame it has unless that frame is shared with another
\* page of a private mapping (copy-on-write); otherwise it gets the frame of
\* residence.alloc_page and the frame it had is given to free_page.  phys maps
\* the pages of the memory space that have a frame to that frame.
mapping_map(phys, pm, mb, m, page_offset) ==
    LET page == AddPages(mb, page_offset)
        has == page \in DOMAIN phys
        cow == /\ has
               /\ RefCount(pm.ref_counter, phys[page]) > 1
               /\ ~HasBit(m.flags, MAPPING_FLAG_SHARED)
        a == alloc_page(pm, m.residence, page_offset, "")
        f == IF cow THEN free_page(a.pm, m.residence, page_offset, phys[page])
             ELSE [pm |-> a.pm, res |-> "ok"]
    IN  IF has /\ ~cow THEN {[phys |-> phys, pm |-> pm, res |-> "ok"]}
        ELSE IF a.res = "panic" \/ f.res = "panic"
        THEN {[phys |-> phys, pm |-> pm, res |-> "panic"]}
        ELSE IF a.res = "err" THEN {}
        ELSE {[phys |-> MapInsert(phys, page, a.frame), pm |-> f.pm, res |-> "ok"]}

\* MemSpace::handle_page_fault: the outcomes, each with the value returned,
\* the frames of the memory space and the physical memory it leaves.
handle_page_fault(st, phys, pm, virt_addr, code) ==
    LET refused == {[res |-> FALSE, phys |-> phys, pm |-> pm, panic |-> FALSE]}
        one(mb) ==
          IF mb = NoAddr THEN refused
          ELSE LET mapping == st.mappings[mb]
                   can_write_mapping == HasBit(mapping.flags, MAPPING_FLAG_WRITE)
                   userspace_mapping == HasBit(mapping.flags, MAPPING_FLAG_USER)
                   page_offset == (virt_addr - mb) \div PAGE_SIZE
               IN  IF HasBit(code, PAGE_FAULT_WRITE) /\ ~can_write_mapping THEN refused
                   ELSE IF HasBit(code, PAGE_FAULT_USER) /\ ~userspace_mapping
                   THEN refused
                   ELSE {[res |-> r.res = "ok", phys |-> r.phys, pm |-> r.pm,
                          panic |-> r.res = "panic"] :
                            r \in mapping_map(phys, pm, mb, mapping, page_offset)}
    IN  IF ~HasBit(code, PAGE_FAULT_PRESENT) THEN refused
        ELSE UNION {one(mb) : mb \in get_mapping_for_ptr(st, virt_addr)}

\* The flags asked for by `user` and `write` are among `flags`.
FlagsAllow(flags, user, write) ==
    /\ write => HasBit(flags, MAPPING_FLAG_WRITE)
    /\ user => HasBit(flags, MAPPING_FLAG_USER)

\* MemSpace::can_access, the loop from offset i on: the values it can return.
RECURSIVE can_access_from(_, _, _, _, _, _)
can_access_from(st, ptr, size, user, write, i) ==
    IF i >= size THEN {TRUE}
    ELSE LET p == ptr + i
             one(mb) ==
               IF mb = NoAddr THEN {FALSE}
               ELSE LET mapping == st.mappings[mb]
                    IN  IF ~FlagsAllow(mapping.flags, user, write) THEN {FALSE}
                        ELSE can_access_from(st, ptr, size, user, write,
                                             i + mapping.size * PAGE_SIZE)
         IN  UNION {one(mb) : mb \in get_mapping_for_ptr(st, p)}

\* MemSpace::can_access
can_access(st, ptr, size, user, write) ==
    can_access_from(st, ptr, size, user, write, 0)

\* MemSpace::can_access_string, the outer loop from offset i on.  The memory
\* holds its first NUL byte `nul` bytes after ptr.  Each outcome is the value
\* returned (NoAddr for None) and the addresses of the bytes read.
RECURSIVE can_access_string_from(_, _, _, _, _, _, _)
can_access_string_from(st, ptr, user, write, nul, i, reads) ==
    LET curr_ptr == ptr + i
        none == {[res |-> NoAddr, reads |-> reads]}
        one(mb) ==
          IF mb = NoAddr THEN none
          ELSE LET mapping == st.mappings[mb]
                   page_begin == down_align(curr_ptr)
                   inner_off == curr_ptr - page_begin
                   check_size == PAGE_SIZE - inner_off
                   \* the bytes the inner loop reads: up to the NUL byte, or
                   \* to the end of the page
                   last == Min(check_size - 1, nul - i)
                   read == {curr_ptr + j : j \in 0..last}
               IN  IF ~FlagsAllow(mapping.flags, user, write) THEN none
                   ELSE IF nul - i <= check_size - 1
                   THEN {[res |-> nul, reads |-> reads \cup read]}
                   ELSE can_access_string_from(st, ptr, user, write, nul,
                                               i + check_size, reads \cup read)
    IN  UNION {one(mb) : mb \in get_mapping_for_ptr(st, curr_ptr)}

\* MemSpace::can_access_string
can_access_string(st, ptr, user, write, nul) ==
    can_access_string_from(st, ptr, user, write, nul, 0, {})

\* MemSpace::alloc, the loop from offset `off` on, for a chunk of `size`
\* bytes (size_of::<T>() * len).
RECURSIVE alloc_from(_, _, _, _, _, _)
alloc_from(st, phys, pm, virt_addr, size, off) ==
    IF off >= size THEN {[res |-> "ok", phys |-> phys, pm |-> pm]}
    ELSE LET addr == virt_addr + off
             one(mb) ==
               IF mb = NoAddr
               THEN alloc_from(st, phys, pm, virt_addr, size, off + PAGE_SIZE)
               ELSE LET page_offset == (addr - mb) \div PAGE_SIZE
                        step(r) ==
                          IF r.res = "panic" THEN {r}
                          ELSE alloc_from(st, r.phys, r.pm, virt_addr, size,
                                          off + PAGE_SIZE)
                    IN  UNION {step(r) : r \in mapping_map(phys, pm, mb, st.mappings[mb],
                                                           page_offset)}
         IN  UNION {one(mb) : mb \in get_mapping_for_ptr(st, addr)}

\* MemSpace::alloc
alloc(st, phys, pm, virt_addr, size) == alloc_from(st, phys, pm, virt_addr, size, 0)

\* MemSpace::set_prot: the body is a list of TODOs and returns Ok(()).
set_prot(st, addr, len, prot) == [st |-> st, res |-> "ok"]

\* The pages of the range of `size` pages from ptr that have a frame and that
\* a mapping of st holds.
FramedIn(st, phys, ptr, size) ==
    {p \in DOMAIN phys :
        /\ \E k \in 0..(size - 1) : p = AddPages(ptr, k)
        /\ \E b \in DOMAIN st.mappings : InRange(b, st.mappings[b].size, p)}

\* MemMapping::partial_unmap, the release of the frames of the window cut:
\* each page of `pages` gives its frame to the free_page of the residence of
\* the mapping that holds it.
RECURSIVE release_pages(_, _, _, _)
release_pages(st, phys, pm, pages) ==
    IF pages = {} THEN [phys |-> phys, pm |-> pm]
    ELSE LET p == CHOOSE x \in pages : \A y \in pages : x <= y
             holders == {b \in DOMAIN st.mappings : InRange(b, st.mappings[b].size, p)}
             mb == CHOOSE b \in holders : \A c \in holders : b <= c
             off == (p - mb) \div PAGE_SIZE
             r == free_page(pm, st.mappings[mb].residence, off, phys[p])
         IN  release_pages(st, [x \in DOMAIN phys \ {p} |-> phys[x]], r.pm,
                           pages \ {p})

\* The frames after a call that unmapped `size` pages from ptr in st.
release(st, phys, pm, ptr, size) ==
    release_pages(st, phys, pm, FramedIn(st, phys, ptr, size))

\* The number of pages of phys that each frame backs.
Refs(phys) ==
    [f \in {phys[p] : p \in DOMAIN phys} |-> Cardinality({p \in DOMAIN phys : phys[p] = f})]

\* The sum of two counts of references.
AddRefs(a, b) ==
    [f \in DOMAIN a \cup DOMAIN b |->
        (IF f \in DOMAIN a THEN a[f] ELSE 0) + (IF f \in DOMAIN b THEN b[f] ELSE 0)]

\* PhysRefCounter::increment, once for every reference of refs.
RECURSIVE increment_all(_, _)
increment_all(rc, refs) ==
    IF DOMAIN refs = {} THEN rc
    ELSE LET f == CHOOSE x \in DOMAIN refs : TRUE
             rest == [x \in DOMAIN refs \ {f} |-> refs[x]]
             rc1 == MapInsert(rc, f, RefCount(rc, f) + refs[f])
         IN  increment_all(rc1, rest)

\* MemMapping::fork for the mappings do_fork has forked when allocation `oom`
\* fails (all of them when none fails): the pages of these mappings that have
\* a frame, which the new mapping shares, its count incremented.
forked_pages(st, phys, oom) ==
    LET forked == IF oom = 0 THEN Cardinality(DOMAIN st.mappings)
                  ELSE IF oom <= 4 THEN 0
                  ELSE (oom - 4) \div 2
        first == {b \in DOMAIN st.mappings :
                     Cardinality({c \in DOMAIN st.mappings : c < b}) < forked}
    IN  {p \in DOMAIN phys : \E b \in first : InRange(b, st.mappings[b].size, p)}

\* A variant of do_fork whose new memory space starts with the break of a
\* new memory space.
do_fork_without_brk(st, vmem_usage, brk_init, brk_ptr, oom) ==
    LET allocs == 4 + 2 * Cardinality(DOMAIN st.mappings)
    IN  IF oom \in 1..allocs
        THEN [res |-> "err", allocs |-> oom, space |-> {}]
        ELSE [res |-> "ok", allocs |-> allocs,
              space |-> {[gaps |-> st.gaps, gaps_size |-> st.gaps_size,
                          mappings |-> st.mappings, vmem_usage |-> vmem_usage,
                          brk_init |-> NULL, brk_ptr |-> NULL,
                          vmem |-> 1]}]

\* MemSpace::do_fork: the new memory space, or the step that failed.  The
\* allocations are the clone of the page-table context and its Arc, the
\* clones of the two gap indices, and per mapping its fork and its insert.
do_fork(st, vmem_usage, brk_init, brk_ptr, oom) ==
    LET allocs == 4 + 2 * Cardinality(DOMAIN st.mappings)
    IN  IF oom \in 1..allocs
        THEN [res |-> "err", allocs |-> oom, space |-> {}]
        ELSE [res |-> "ok", allocs |-> allocs,
              space |-> {[gaps |-> st.gaps, gaps_size |-> st.gaps_size,
                          mappings |-> st.mappings, vmem_usage |-> vmem_usage,
                          brk_init |-> brk_init, brk_ptr |-> brk_ptr,
                          vmem |-> 1]}]

(* ------------------------------- the machine -------------------------- *)

VARIABLES gaps, gaps_size, mappings, vmem_usage, brk_init, brk_ptr,
          debug_build, child, ret, steps,
          phys, ref_counter, buddy, bad_free, other_refs,
          threads, mutex

vars == <<gaps, gaps_size, mappings, vmem_usage, brk_init, brk_ptr,
          debug_build, child, ret, steps,
          phys, ref_counter, buddy, bad_free, other_refs,
          threads, mutex>>

state == [gaps |-> gaps, gaps_size |-> gaps_size, mappings |-> mappings]

\* PHYSICAL_REF_COUNTER and the buddy allocator.
pm == PhysMem(ref_counter, buddy, bad_free)

\* The threads that call MapResidence::alloc and MapResidence::free on their
\* own; threads[t] is the position of thread t and the frame it works on,
\* mutex the thread that holds the lock of PHYSICAL_REF_COUNTER.
Threads == 1..MaxThreads
NoThread == 0
Idle == [pc |-> "idle", frame |-> NoFrame]

\* No thread is inside MapResidence::alloc or MapResidence::free.
NoThreadRuns == UNCHANGED <<threads, mutex>>

\* The arguments the calls are made with: the page-aligned addresses up to
\* PROCESS_END and one page above it, and one address that is not aligned.
Unaligned == ALLOC_BEGIN + 1
Pages == {p * PAGE_SIZE : p \in 0..(EndPage + 1)}
Addrs == Pages \cup {Unaligned}
Sizes == 1..MaxPages
UnmapSizes == 1..(MaxPages + 1)
Flags == {MAPPING_FLAG_WRITE + MAPPING_FLAG_USER}
\* set_brk_init is given the page after ALLOC_BEGIN; set_brk_ptr every byte
\* address from the page before it to one byte above PROCESS_END.
BrkInits == {AddPages(ALLOC_BEGIN, 1)}
BrkAddrs == ALLOC_BEGIN..(PROCESS_END + 1)

\* The allocation made to fail, among those a call makes: 0 for none.
MaxOf(S) == CHOOSE x \in S : \A y \in S : y <= x
Ooms(outcomes) == 0..Min(MaxOom, MaxOf({o.allocs : o \in outcomes}))

\* The last call: its name, its constraint kind or brk flag, and its outcome.
Ret(op, c, brk, o) ==
    [op |-> op, c |-> c, brk |-> brk, res |-> o.res, out |-> o.out,
     stage |-> o.stage, cut |-> o.cut]

NoOutcome == [res |-> "ok", out |-> NoAddr, stage |-> "", cut |-> 0]

Running == ret.res # "panic" /\ steps < MaxSteps

\* MemSpace::new
Init ==
    LET begin == ALLOC_BEGIN
        size == (PROCESS_END - begin) \div PAGE_SIZE
        r == insert_gap(EmptyState, [begin |-> begin, size |-> size], 0, 0)
    IN  /\ gaps = r.st.gaps
        /\ gaps_size = r.st.gaps_size
        /\ mappings = r.st.mappings
        /\ vmem_usage = 0
        /\ brk_init = NULL
        /\ brk_ptr = NULL
        /\ debug_build \in BOOLEAN
        /\ child = {}
        /\ steps = 0
        /\ ret = Ret("new", "None", FALSE, NoOutcome)
        /\ phys = EmptyMap
        /\ ref_counter = EmptyMap
        /\ buddy = Frames
        /\ bad_free = FALSE
        /\ other_refs = EmptyMap
        /\ threads = [t \in Threads |-> Idle]
        /\ mutex = NoThread

Apply(o) ==
    /\ gaps' = o.st.gaps
    /\ gaps_size' = o.st.gaps_size
    /\ mappings' = o.st.mappings
    /\ vmem_usage' = o.vmem_usage
    /\ steps' = steps + 1

\* The physical memory a call leaves.
SetPhysMem(m) ==
    /\ ref_counter' = m.ref_counter
    /\ buddy' = m.buddy
    /\ bad_free' = m.bad_free

\* The frames after the call of outcome o, which, if `unmapped`, unmapped
\* `size` pages from ptr: a call that fails leaves the frames as they were.
ApplyFrames(o, unmapped, ptr, size) ==
    LET r == IF o.res = "ok" /\ unmapped THEN release(state, phys, pm, ptr, size)
             ELSE [phys |-> phys, pm |-> pm]
    IN  /\ phys' = r.phys
        /\ SetPhysMem(r.pm)

\* The memory space fork returned is no longer followed: the frames it
\* references stay referenced.
DropChild ==
    /\ child' = {}
    /\ other_refs' = IF child = {} THEN other_refs
                     ELSE AddRefs(other_refs, Refs((CHOOSE s \in child : TRUE).phys))

\* MemSpace::map.  No mapping is made with MAPPING_FLAG_NOLAZY, so that
\* map_default allocates no frame.
Map(c, a, n, flags, residence) ==
    /\ Running
    /\ \E oom \in Ooms(map(state, vmem_usage, c, a, n, flags, residence, 0, debug_build)) :
       \E o \in map(state, vmem_usage, c, a, n, flags, residence, oom, debug_build) :
          /\ Apply(o)
          /\ ApplyFrames(o, c = "Fixed", a, n)
          /\ ret' = Ret("map", c, FALSE, o)
    /\ DropChild
    /\ UNCHANGED <<brk_init, brk_ptr, debug_build>>
    /\ NoThreadRuns

Unmap(a, n, brk) ==
    /\ Running
    /\ \E oom \in Ooms(unmap(state, vmem_usage, a, n, brk, 0, debug_build)) :
       \E o \in unmap(state, vmem_usage, a, n, brk, oom, debug_build) :
          /\ Apply(o)
          /\ ApplyFrames(o, TRUE, a, n)
          /\ ret' = Ret("unmap", "None", brk, o)
    /\ DropChild
    /\ UNCHANGED <<brk_init, brk_ptr, debug_build>>
    /\ NoThreadRuns

\* MemSpace::set_brk_init: called once, with a page-aligned pointer.
SetBrkInit(ptr) ==
    /\ Running
    /\ brk_init = NULL /\ brk_ptr = NULL /\ ptr # NULL
    /\ IsAligned(ptr)
    /\ brk_init' = ptr
    /\ brk_ptr' = ptr
    /\ ret' = Ret("set_brk_init", "None", FALSE, NoOutcome)
    /\ DropChild
    /\ steps' = steps + 1
    /\ UNCHANGED <<gaps, gaps_size, mappings, vmem_usage, debug_build,
                   phys, ref_counter, buddy, bad_free>>
    /\ NoThreadRuns

\* The range set_brk_ptr maps at a fixed address (ptr >= brk_ptr) or unmaps.
BrkRange(from, ptr) ==
    IF ptr >= from
    THEN [begin |-> AlignUp(from),
          pages |-> DivCeil(Wrap(ptr - AlignUp(from)), PAGE_SIZE)]
    ELSE [begin |-> AlignUp(ptr),
          pages |-> DivCeil(Wrap(AlignUp(ptr) - ptr), PAGE_SIZE)]

SetBrkPtr(ptr) ==
    /\ Running
    /\ \E oom \in Ooms({r.o : r \in set_brk_ptr(state, vmem_usage, brk_init, brk_ptr,
                                                ptr, 0, debug_build)}) :
       \E r \in set_brk_ptr(state, vmem_usage, brk_init, brk_ptr, ptr, oom,
                            debug_build) :
          /\ Apply(r.o)
          /\ ApplyFrames(r.o, TRUE, BrkRange(brk_ptr, ptr).begin,
                         BrkRange(brk_ptr, ptr).pages)
          /\ brk_ptr' = r.brk_ptr
          /\ ret' = Ret("set_brk_ptr", "None", FALSE, r.o)
    /\ DropChild
    /\ UNCHANGED <<brk_init, debug_build>>
    /\ NoThreadRuns

\* MemSpace::fork: the returned memory space is held in child.
Fork ==
    /\ Running
    /\ \E oom \in Ooms({do_fork(state, vmem_usage, brk_init, brk_ptr, 0)}) :
          LET r == do_fork(state, vmem_usage, brk_init, brk_ptr, oom)
              shared == [p \in forked_pages(state, phys, oom) |-> phys[p]]
          IN  /\ child' = {s @@ [phys |-> shared] : s \in r.space}
              /\ ref_counter' = increment_all(ref_counter, Refs(shared))
              /\ ret' = Ret("fork", "None", FALSE, [NoOutcome EXCEPT !.res = r.res])
    /\ other_refs' = IF child = {} THEN other_refs
                     ELSE AddRefs(other_refs, Refs((CHOOSE s \in child : TRUE).phys))
    /\ steps' = steps + 1
    /\ UNCHANGED <<gaps, gaps_size, mappings, vmem_usage, brk_init, brk_ptr,
                   debug_build, phys, buddy, bad_free>>
    /\ NoThreadRuns

\* The calls that follow are made on the memory space fork returned.
RunChild ==
    /\ ret.res # "panic"
    /\ \E s \in child :
          /\ gaps' = s.gaps
          /\ gaps_size' = s.gaps_size
          /\ mappings' = s.mappings
          /\ vmem_usage' = s.vmem_usage
          /\ brk_init' = s.brk_init
          /\ brk_ptr' = s.brk_ptr
          /\ phys' = s.phys
    /\ child' = {}
    /\ other_refs' = AddRefs(other_refs, Refs(phys))
    /\ ret' = Ret("child", "None", FALSE, NoOutcome)
    /\ UNCHANGED <<debug_build, steps, ref_counter, buddy, bad_free>>
    /\ NoThreadRuns

Next ==
    \/ \E n \in Sizes, f \in Flags : Map("None", NULL, n, f, Normal)
    \/ \E a \in Addrs, n \in Sizes, f \in Flags : Map("Hint", a, n, f, Normal)
    \/ \E a \in Addrs, n \in Sizes, f \in Flags : Map("Fixed", a, n, f, Normal)
    \/ \E a \in Addrs, n \in UnmapSizes, brk \in BOOLEAN : Unmap(a, n, brk)
    \/ \E ptr \in BrkInits : SetBrkInit(ptr)
    \/ \E ptr \in BrkAddrs : SetBrkPtr(ptr)
    \/ Fork
    \/ RunChild

Spec == Init /\ [][Next]_vars

(* --------------------- paging and access queries ---------------------- *)

\* The outcome of a call that returns a value and leaves the indices alone:
\* out is 1 for true, 0 for false, or the length returned.
Answer(res, out) == [NoOutcome EXCEPT !.res = res, !.out = out]

Bool(b) == IF b THEN 1 ELSE 0

\* MemSpace::handle_page_fault
HandlePageFault(virt_addr, code) ==
    /\ Running
    /\ \E r \in handle_page_fault(state, phys, pm, virt_addr, code) :
          /\ phys' = r.phys
          /\ SetPhysMem(r.pm)
          /\ ret' = Ret("handle_page_fault", "None", FALSE,
                        Answer(IF r.panic THEN "panic" ELSE "ok", Bool(r.res)))
    /\ DropChild
    /\ steps' = steps + 1
    /\ UNCHANGED <<gaps, gaps_size, mappings, vmem_usage, brk_init, brk_ptr,
                   debug_build>>
    /\ NoThreadRuns

\* MemSpace::alloc
Alloc(virt_addr, size) ==
    /\ Running
    /\ \E r \in alloc(state, phys, pm, virt_addr, size) :
          /\ phys' = r.phys
          /\ SetPhysMem(r.pm)
          /\ ret' = Ret("alloc", "None", FALSE, Answer(r.res, size))
    /\ DropChild
    /\ steps' = steps + 1
    /\ UNCHANGED <<gaps, gaps_size, mappings, vmem_usage, brk_init, brk_ptr,
                   debug_build>>
    /\ NoThreadRuns

\* MemSpace::can_access
CanAccess(ptr, size, user, write) ==
    /\ Running
    /\ \E r \in can_access(state, ptr, size, user, write) :
          ret' = Ret("can_access", "None", FALSE, Answer("ok", Bool(r)))
    /\ DropChild
    /\ steps' = steps + 1
    /\ UNCHANGED <<gaps, gaps_size, mappings, vmem_usage, brk_init, brk_ptr,
                   debug_build, phys, ref_counter, buddy, bad_free>>
    /\ NoThreadRuns

\* MemSpace::can_access_string on a memory whose first NUL byte at or after
\* ptr is `nul` bytes after it.
CanAccessString(ptr, user, write, nul) ==
    /\ Running
    /\ \E r \in can_access_string(state, ptr, user, write, nul) :
          ret' = Ret("can_access_string", "None", FALSE, Answer("ok", r.res))
    /\ DropChild
    /\ steps' = steps + 1
    /\ UNCHANGED <<gaps, gaps_size, mappings, vmem_usage, brk_init, brk_ptr,
                   debug_build, phys, ref_counter, buddy, bad_free>>
    /\ NoThreadRuns

\* MemSpace::set_prot
SetProt(addr, len, prot) ==
    /\ Running
    /\ LET r == set_prot(state, addr, len, prot)
       IN  /\ gaps' = r.st.gaps
           /\ gaps_size' = r.st.gaps_size
           /\ mappings' = r.st.mappings
           /\ ret' = Ret("set_prot", "None", FALSE, Answer(r.res, prot))
    /\ DropChild
    /\ steps' = steps + 1
    /\ UNCHANGED <<vmem_usage, brk_init, brk_ptr, debug_build, phys, ref_counter,
                   buddy, bad_free>>
    /\ NoThreadRuns

\* The arguments of the calls of SpecPaging: the pages and the byte addresses
\* of the user range and of the page above it, the flags with and without
\* WRITE and USER, the two residences, every page-fault code.
UserAddrs == {p * PAGE_SIZE : p \in 1..(EndPage - 1)}
ByteAddrs == ALLOC_BEGIN..(PROCESS_END + PAGE_SIZE - 1)
PagingSizes == 1..2
PagingFlags == {MAPPING_FLAG_WRITE + MAPPING_FLAG_USER, MAPPING_FLAG_USER,
                MAPPING_FLAG_WRITE}
Residences == {Normal, Static}
FaultCodes == 0..(PAGE_FAULT_PRESENT + PAGE_FAULT_WRITE + PAGE_FAULT_USER)

NextPaging ==
    \/ \E n \in PagingSizes, f \in PagingFlags, r \in Residences :
          Map("None", NULL, n, f, r)
    \/ \E a \in UserAddrs, f \in PagingFlags : Map("Fixed", a, 1, f, Normal)
    \/ \E a \in UserAddrs : Unmap(a, 1, FALSE)
    \/ \E a \in ByteAddrs, code \in FaultCodes : HandlePageFault(a, code)
    \/ \E a \in ByteAddrs, size \in {PAGE_SIZE, 2 * PAGE_SIZE} : Alloc(a, size)
    \/ \E a \in ByteAddrs, size \in {1, PAGE_SIZE + 1}, user \in BOOLEAN, write \in BOOLEAN :
          CanAccess(a, size, user, write)
    \/ \E a \in ByteAddrs, nul \in {0, PAGE_SIZE}, write \in BOOLEAN :
          CanAccessString(a, TRUE, write, nul)
    \/ \E a \in UserAddrs : SetProt(a, PAGE_SIZE, MAPPING_FLAG_USER)
    \/ Fork
    \/ RunChild

SpecPaging == Init /\ [][NextPaging]_vars

(* ------------------- the residence and the frames --------------------- *)

\* One reference to the frame f.
OneRef(f) == [x \in {f} |-> 1]

\* The references refs less one reference to f.
LessRef(refs, f) ==
    IF refs[f] = 1 THEN [x \in DOMAIN refs \ {f} |-> refs[x]]
    ELSE [refs EXCEPT ![f] = @ - 1]

CallsLeft == ret.res # "panic" /\ steps < MaxCalls

\* The memory space is left alone by the calls on a residence.
SpaceUnchanged ==
    UNCHANGED <<gaps, gaps_size, mappings, vmem_usage, brk_init, brk_ptr,
                debug_build, child, phys>>

\* MapResidence::alloc_page, called by a mapping of some memory space, which
\* holds the frame returned.
AllocPage(residence, off, fail) ==
    /\ CallsLeft
    /\ LET r == alloc_page(pm, residence, off, fail)
       IN  /\ SetPhysMem(r.pm)
           /\ other_refs' = IF r.res = "ok" THEN AddRefs(other_refs, OneRef(r.frame))
                            ELSE other_refs
           /\ ret' = Ret("alloc_page", residence.kind, FALSE, Answer(r.res, r.frame))
    /\ steps' = steps + 1
    /\ SpaceUnchanged
    /\ NoThreadRuns

\* PhysRefCounter::increment on a frame of the allocator that a mapping
\* holds, as MemMapping::fork does for the mapping that shares it.
SharePage(f) ==
    /\ CallsLeft
    /\ f \in DOMAIN other_refs \cap Frames
    /\ ref_counter' = increment(ref_counter, f)
    /\ other_refs' = AddRefs(other_refs, OneRef(f))
    /\ ret' = Ret("increment", "Normal", FALSE, Answer("ok", f))
    /\ steps' = steps + 1
    /\ UNCHANGED <<buddy, bad_free>>
    /\ SpaceUnchanged
    /\ NoThreadRuns

\* MapResidence::free_page, called by a mapping on a frame it holds and that
\* the alloc_page of the same residence returned for the same offset.
FreePage(residence, off, f) ==
    /\ CallsLeft
    /\ f \in DOMAIN other_refs
    /\ IF residence.kind = "Static" /\ off < Len(residence.pages)
       THEN f = residence.pages[off + 1]
       ELSE f \in Frames
    /\ LET r == free_page(pm, residence, off, f)
       IN  /\ SetPhysMem(r.pm)
           /\ ret' = Ret("free_page", residence.kind, FALSE, Answer(r.res, f))
    /\ other_refs' = LessRef(other_refs, f)
    /\ steps' = steps + 1
    /\ SpaceUnchanged
    /\ NoThreadRuns

NextResidence ==
    \/ \E r \in Residences, off \in 0..1, fail \in {"", "buddy", "increment"} :
          AllocPage(r, off, fail)
    \/ \E f \in Frames : SharePage(f)
    \/ \E r \in Residences, off \in 0..1, f \in Frames \cup {StaticFrame} :
          FreePage(r, off, f)

SpecResidence == Init /\ [][NextResidence]_vars


(* ------------------- the residence of a split mapping ----------------- *)

\* The residences of the mappings of SpecSplit: the Normal residence, a
\* Static residence of two pre-existing pages, a File residence at byte
\* offset 0 and a Swap residence at page offset 0.
StaticPair == [kind |-> "Static", off |-> 0, pages |-> <<StaticFrame, StaticFrame + 1>>]
File == [kind |-> "File", off |-> 0]
Swap == [kind |-> "Swap", off |-> 0]
SplitResidences == {Normal, StaticPair, File, Swap}

NextSplit ==
    \/ \E n \in Sizes, f \in Flags, r \in SplitResidences : Map("None", NULL, n, f, r)
    \/ \E a \in UserAddrs, n \in PagingSizes : Unmap(a, n, FALSE)
    \/ \E a \in UserAddrs : HandlePageFault(a, PAGE_FAULT_PRESENT)

SpecSplit == Init /\ [][NextSplit]_vars
(* --------------- concurrent calls on the reference counter ------------ *)

At(t, pc) == threads[t].pc = pc

Goto(t, pc) == threads' = [threads EXCEPT ![t].pc = pc]

\* The lock of PHYSICAL_REF_COUNTER is given up by the thread that holds it.
Unlocked(t) == IF mutex = t THEN NoThread ELSE mutex

\* The step of a thread inside alloc or free leaves the memory space alone.
ThreadOnly ==
    /\ SpaceUnchanged
    /\ UNCHANGED <<ret, steps>>

\* A thread calls free_page of a Normal residence on the frame f, one of the
\* references to f being its own to give up.
StartFree(t, f) ==
    /\ At(t, "idle")
    /\ f \in DOMAIN other_refs \cap Frames
    /\ other_refs' = LessRef(other_refs, f)
    /\ threads' = [threads EXCEPT ![t] = [pc |-> "free_lock", frame |-> f]]
    /\ UNCHANGED <<mutex, ref_counter, buddy, bad_free>>
    /\ ThreadOnly

\* MapResidence::free, PHYSICAL_REF_COUNTER.lock()
FreeLock(t) ==
    /\ At(t, "free_lock")
    /\ mutex = NoThread
    /\ mutex' = t
    /\ Goto(t, "free_decrement")
    /\ UNCHANGED <<other_refs, ref_counter, buddy, bad_free>>
    /\ ThreadOnly

\* A variant of the decrement of MapResidence::free that gives up the lock
\* once the count is decremented.
FreeDecrementUnlocking(t) ==
    /\ At(t, "free_decrement")
    /\ ref_counter' = decrement(ref_counter, threads[t].frame)
    /\ mutex' = Unlocked(t)
    /\ Goto(t, "free_can_free")
    /\ UNCHANGED <<other_refs, buddy, bad_free>>
    /\ ThreadOnly

\* MapResidence::free, ref_counter.decrement(ptr)
FreeDecrement(t) ==
    /\ At(t, "free_decrement")
    /\ ref_counter' = decrement(ref_counter, threads[t].frame)
    /\ Goto(t, "free_can_free")
    /\ UNCHANGED <<mutex, other_refs, buddy, bad_free>>
    /\ ThreadOnly

\* MapResidence::free, ref_counter.can_free(ptr)
FreeCanFree(t) ==
    /\ At(t, "free_can_free")
    /\ IF can_free(ref_counter, threads[t].frame)
       THEN Goto(t, "free_buddy")
       ELSE Goto(t, "free_unlock")
    /\ UNCHANGED <<mutex, other_refs, ref_counter, buddy, bad_free>>
    /\ ThreadOnly

\* MapResidence::free, buddy::free(ptr, 0)
FreeBuddy(t) ==
    /\ At(t, "free_buddy")
    /\ SetPhysMem(buddy_free(pm, threads[t].frame))
    /\ Goto(t, "free_unlock")
    /\ UNCHANGED <<mutex, other_refs>>
    /\ ThreadOnly

\* MapResidence::free, the lock guard dropped at the end of the function.
FreeUnlock(t) ==
    /\ At(t, "free_unlock")
    /\ mutex' = Unlocked(t)
    /\ threads' = [threads EXCEPT ![t] = Idle]
    /\ UNCHANGED <<other_refs, ref_counter, buddy, bad_free>>
    /\ ThreadOnly

\* A thread calls alloc_page of a Normal residence.
StartAlloc(t) ==
    /\ At(t, "idle")
    /\ Goto(t, "alloc_buddy")
    /\ UNCHANGED <<mutex, other_refs, ref_counter, buddy, bad_free>>
    /\ ThreadOnly

\* MapResidence::alloc, buddy::alloc(0, FLAG_ZONE_TYPE_USER)?, made before the
\* lock is taken; it fails when the allocator has no frame, or says so.
AllocBuddy(t, fail) ==
    /\ At(t, "alloc_buddy")
    /\ IF buddy = {} \/ fail
       THEN /\ threads' = [threads EXCEPT ![t] = Idle]
            /\ UNCHANGED buddy
       ELSE LET ptr == CHOOSE f \in buddy : \A g \in buddy : f <= g
            IN  /\ buddy' = buddy \ {ptr}
                /\ threads' = [threads EXCEPT ![t] = [pc |-> "alloc_lock", frame |-> ptr]]
    /\ UNCHANGED <<mutex, other_refs, ref_counter, bad_free>>
    /\ ThreadOnly

\* MapResidence::alloc, PHYSICAL_REF_COUNTER.lock()
AllocLock(t) ==
    /\ At(t, "alloc_lock")
    /\ mutex = NoThread
    /\ mutex' = t
    /\ Goto(t, "alloc_increment")
    /\ UNCHANGED <<other_refs, ref_counter, buddy, bad_free>>
    /\ ThreadOnly

\* MapResidence::alloc, ref_counter.increment(ptr): on failure the frame goes
\* back to the allocator and the call returns the error.
AllocIncrement(t, fail) ==
    /\ At(t, "alloc_increment")
    /\ IF fail
       THEN /\ SetPhysMem(buddy_free(pm, threads[t].frame))
            /\ threads' = [threads EXCEPT ![t] = [pc |-> "alloc_unlock", frame |-> NoFrame]]
       ELSE /\ ref_counter' = increment(ref_counter, threads[t].frame)
            /\ Goto(t, "alloc_unlock")
            /\ UNCHANGED <<buddy, bad_free>>
    /\ UNCHANGED <<mutex, other_refs>>
    /\ ThreadOnly

\* MapResidence::alloc, the lock guard dropped on return: the caller holds the
\* frame returned.
AllocUnlock(t) ==
    /\ At(t, "alloc_unlock")
    /\ mutex' = Unlocked(t)
    /\ other_refs' = IF threads[t].frame = NoFrame THEN other_refs
                     ELSE AddRefs(other_refs, OneRef(threads[t].frame))
    /\ threads' = [threads EXCEPT ![t] = Idle]
    /\ UNCHANGED <<ref_counter, buddy, bad_free>>
    /\ ThreadOnly

\* No thread is inside a call.
AllIdle == \A t \in Threads : At(t, "idle")

\* The threads run concurrently; a frame one of them has allocated comes to
\* be shared by a call made while no thread is inside a call.
NextConcurrent ==
    \/ \E f \in Frames : AllIdle /\ SharePage(f)
    \/ \E t \in Threads, f \in Frames : StartFree(t, f)
    \/ \E t \in Threads : FreeLock(t)
    \/ \E t \in Threads : FreeDecrement(t)
    \/ \E t \in Threads : FreeCanFree(t)
    \/ \E t \in Threads : FreeBuddy(t)
    \/ \E t \in Threads : FreeUnlock(t)
    \/ \E t \in Threads : StartAlloc(t)
    \/ \E t \in Threads, fail \in BOOLEAN : AllocBuddy(t, fail)
    \/ \E t \in Threads : AllocLock(t)
    \/ \E t \in Threads, fail \in BOOLEAN : AllocIncrement(t, fail)
    \/ \E t \in Threads : AllocUnlock(t)

SpecConcurrent == Init /\ [][NextConcurrent]_vars

(* ------------------------------ properties ---------------------------- *)

\* The page addresses of the range of `size` pages beginning at `begin`.
PagesOf(begin, size) == {AddPages(begin, k) : k \in 0..(size - 1)}

GapPages(b) == PagesOf(b, gaps[b])
MappingPages(b) == PagesOf(b, mappings[b].size)
AllGapPages == UNION {GapPages(b) : b \in DOMAIN gaps}
AllMappingPages == UNION {MappingPages(b) : b \in DOMAIN mappings}
UserPages == {p * PAGE_SIZE : p \in 1..(EndPage - 1)}

\* The steps of a call at which an allocation can fail.
MapStaging == {"gaps", "gaps_size", "mappings", "map_default"}
UnmapStaging == {"remove_mappings", "mappings", "remove_gaps", "gaps", "gaps_size"}

\* No mapping holds a page of the range of n pages at a.
NoMappingIn(a, n) == PagesOf(a, n) \cap AllMappingPages = {}

RECURSIVE SumSizes(_)
SumSizes(bs) ==
    IF bs = {} THEN 0
    ELSE LET b == CHOOSE b \in bs : TRUE
         IN  mappings[b].size + SumSizes(bs \ {b})

\* C1: no two mappings overlap, and no mapping overlaps a gap.
C1_NoOverlap ==
    /\ \A a, b \in DOMAIN mappings : a # b => MappingPages(a) \cap MappingPages(b) = {}
    /\ \A m \in DOMAIN mappings : \A g \in DOMAIN gaps :
          MappingPages(m) \cap GapPages(g) = {}

\* C2: the gaps and the mappings cover exactly [ALLOC_BEGIN, PROCESS_END).
C2_Coverage == AllGapPages \cup AllMappingPages = UserPages

\* C3: a map that fails on an allocation after its gap was chosen leaves the
\* indices and vmem_usage as they were.
C3_MapFailureAtomic ==
    [][(ret'.op = "map" /\ ret'.res = "err" /\ ret'.stage \in MapStaging)
          => UNCHANGED <<gaps, gaps_size, mappings, vmem_usage>>]_vars

\* C4: vmem_usage is the sum of the sizes of the mappings.
C4_VmemUsage == vmem_usage = SumSizes(DOMAIN mappings)

\* No gap ends where another begins.
NoAdjacentGaps ==
    \A a, b \in DOMAIN gaps : RangeEnd(a, gaps[a]) # b

\* C5: after a successful unmap(ptr, n, false) no gap ends where another
\* begins: every gap is maximal.
C5_GapsMaximal ==
    (ret.op = "unmap" /\ ret.res = "ok" /\ ~ret.brk) => NoAdjacentGaps

\* C6: gaps_size holds (size, begin) exactly for the gaps of gaps_by_address.
C6_GapIndicesAgree == gaps_size = {<<gaps[b], b>> : b \in DOMAIN gaps}

\* C7: no two gaps overlap.
C7_NoGapOverlap ==
    \A a, b \in DOMAIN gaps : a # b => GapPages(a) \cap GapPages(b) = {}

\* C8: a successful map followed by unmap of the returned range restores the
\* three indices.
C8_RoundTrip ==
    \A c \in {"Fixed", "Hint", "None"} : \A a \in Pages : \A n \in Sizes :
    \A f \in Flags :
    \A o \in map(state, vmem_usage, c, a, n, f, Normal, 0, debug_build) :
       o.res = "ok" =>
          \A u \in unmap(o.st, o.vmem_usage, o.out, n, FALSE, 0, debug_build) :
             u.res = "ok" /\ u.st = state

\* C9: unmap(ptr, n, false) of an aligned range that intersects no mapping
\* succeeds and changes neither the indices nor vmem_usage, and the same
\* unmap made a second time leaves what the first left.
C9_UnmapFreeIsNoOp ==
    \A a \in Pages : \A n \in UnmapSizes :
       NoMappingIn(a, n) =>
          \A o \in unmap(state, vmem_usage, a, n, FALSE, 0, debug_build) :
             /\ o.res = "ok" /\ o.st = state /\ o.vmem_usage = vmem_usage
             /\ \A o2 \in unmap(o.st, o.vmem_usage, a, n, FALSE, 0, debug_build) :
                   o2.res = "ok" /\ o2.st = o.st /\ o2.vmem_usage = o.vmem_usage

\* An unmap that met no mapping has returned Ok while mappings exist.
C9_Witness ==
    /\ ret.op = "unmap" /\ ret.res = "ok" /\ ~ret.brk /\ ret.cut = 0
    /\ DOMAIN mappings # {}
    /\ \E a \in Pages : \E n \in UnmapSizes : n > 1 /\ NoMappingIn(a, n)

\* C10: an unmap that fails on an allocation leaves the indices and
\* vmem_usage as they were.
C10_UnmapFailureAtomic ==
    [][(ret'.op = "unmap" /\ ret'.res = "err" /\ ret'.stage \in UnmapStaging)
          => UNCHANGED <<gaps, gaps_size, mappings, vmem_usage>>]_vars

\* An unmap has failed at the last allocation of a cut, the size-index insert
\* of the merged gap, after its removals and fragments were staged.
C10_Witness ==
    /\ ret.op = "unmap" /\ ret.res = "err" /\ ret.stage = "gaps_size"
    /\ DOMAIN mappings # {}

\* Every page address of the address space.
AllPages == {p * PAGE_SIZE : p \in 0..((ADDR_SPACE \div PAGE_SIZE) - 1)}

\* The flags of the mappings of the index mp that hold the page p.
FlagsAt(mp, p) == {mp[b].flags : b \in {x \in DOMAIN mp : p \in PagesOf(x, mp[x].size)}}

\* C11: after a successful unmap(ptr, n, false) no page of the range is held
\* by a mapping, and every page outside the range that a mapping held before
\* is still held by a mapping with the same flags.
C11_UnmapCutsRangeOnly ==
    \A a \in Pages : \A n \in UnmapSizes :
    \A o \in unmap(state, vmem_usage, a, n, FALSE, 0, debug_build) :
       o.res = "ok" =>
          /\ \A p \in PagesOf(a, n) : FlagsAt(o.st.mappings, p) = {}
          /\ \A p \in AllPages \ PagesOf(a, n) :
                FlagsAt(mappings, p) \subseteq FlagsAt(o.st.mappings, p)

\* The range of n pages at a lies inside one gap.
InOneGap(a, n) == \E g \in DOMAIN gaps : PagesOf(a, n) \subseteq GapPages(g)

\* C12: map(Hint(addr), n) with an aligned addr returns addr when the range
\* lies inside one gap, and otherwise succeeds at another address whenever
\* a gap of at least n pages exists.
C12_HintFallsBack ==
    \A a \in Pages : \A n \in Sizes : \A f \in Flags :
    \A o \in map(state, vmem_usage, "Hint", a, n, f, Normal, 0, debug_build) :
       /\ InOneGap(a, n) => (o.res = "ok" /\ o.out = a)
       /\ (~InOneGap(a, n) /\ \E g \in DOMAIN gaps : gaps[g] >= n)
             => (o.res = "ok" /\ o.out # a)

\* The addresses up to one byte above PROCESS_END that are not page-aligned.
Misaligned == {x \in 0..(PROCESS_END + 1) : ~IsAligned(x)}

\* C13: map with a Fixed or Hint address that is not page-aligned, and unmap
\* with a ptr that is not page-aligned, return an error and leave the
\* indices and vmem_usage as they were.
C13_MisalignedRejected ==
    \A a \in Misaligned :
       /\ \A c \in {"Fixed", "Hint"} : \A n \in Sizes : \A f \in Flags :
          \A o \in map(state, vmem_usage, c, a, n, f, Normal, 0, debug_build) :
             o.res = "err" /\ o.st = state /\ o.vmem_usage = vmem_usage
       /\ \A n \in UnmapSizes : \A brk \in BOOLEAN :
          \A o \in unmap(state, vmem_usage, a, n, brk, 0, debug_build) :
             o.res = "err" /\ o.st = state /\ o.vmem_usage = vmem_usage

\* A map with a hint that is not aligned has been refused while a mapping
\* exists.
C13_Witness ==
    /\ ret.op = "map" /\ ret.c = "Hint" /\ ret.res = "err" /\ ret.stage = "invalid"
    /\ DOMAIN mappings # {}

\* C14: map(Fixed(addr), n) fails and changes nothing whenever a page of the
\* range lies at or above PROCESS_END.
C14_FixedAboveEndRejected ==
    \A a \in Pages : \A n \in Sizes : \A f \in Flags :
       (\E p \in PagesOf(a, n) : p >= PROCESS_END) =>
          \A o \in map(state, vmem_usage, "Fixed", a, n, f, Normal, 0, debug_build) :
             o.res = "err" /\ o.st = state /\ o.vmem_usage = vmem_usage

\* C15: when no gap of at least n pages exists, map with constraint None,
\* and map with a Hint (which then cannot be satisfied at the hinted
\* address), return an error and leave the indices and vmem_usage as they
\* were.
C15_NoGapIsError ==
    \A n \in Sizes : \A f \in Flags :
       (\A g \in DOMAIN gaps : gaps[g] < n) =>
          /\ \A o \in map(state, vmem_usage, "None", NULL, n, f, Normal, 0, debug_build) :
                o.res = "err" /\ o.st = state /\ o.vmem_usage = vmem_usage
          /\ \A a \in Pages :
             \A o \in map(state, vmem_usage, "Hint", a, n, f, Normal, 0, debug_build) :
                o.res = "err" /\ o.st = state /\ o.vmem_usage = vmem_usage

\* The number of pages of [ALLOC_BEGIN, PROCESS_END).
UserSize == (PROCESS_END - ALLOC_BEGIN) \div PAGE_SIZE

\* The memory space is as MemSpace::new leaves it.
Fresh ==
    /\ gaps = (ALLOC_BEGIN :> UserSize)
    /\ gaps_size = {<<UserSize, ALLOC_BEGIN>>}
    /\ mappings = EmptyMap
    /\ vmem_usage = 0

\* C16: on a new memory space map(None, n, flags, Normal) returns
\* ALLOC_BEGIN and leaves the one mapping [ALLOC_BEGIN, ALLOC_BEGIN + n
\* pages), the one gap [ALLOC_BEGIN + n pages, PROCESS_END) and
\* vmem_usage = n.
C16_FirstMap ==
    Fresh =>
       \A n \in Sizes : \A f \in Flags :
          n < UserSize =>
             \A o \in map(state, vmem_usage, "None", NULL, n, f, Normal, 0, debug_build) :
                /\ o.res = "ok" /\ o.out = ALLOC_BEGIN
                /\ o.st.mappings =
                      (ALLOC_BEGIN :> [size |-> n, flags |-> f, residence |-> Normal])
                /\ o.st.gaps = (AddPages(ALLOC_BEGIN, n) :> (UserSize - n))
                /\ o.st.gaps_size = {<<UserSize - n, AddPages(ALLOC_BEGIN, n)>>}
                /\ o.vmem_usage = n

\* The first call on a new memory space was a map(None, n) that succeeded.
C16_Witness ==
    /\ steps = 1 /\ ret.op = "map" /\ ret.c = "None" /\ ret.res = "ok"
    /\ ret.out = ALLOC_BEGIN
    /\ Cardinality(DOMAIN mappings) = 1 /\ Cardinality(DOMAIN gaps) = 1
    /\ vmem_usage > 1

\* The size and the flags of every mapping of the index mp.
Shape(mp) == [b \in DOMAIN mp |-> [size |-> mp[b].size, flags |-> mp[b].flags]]

\* The mappings that hold every page of the range of n pages at a.
Holders(a, n) == {m \in DOMAIN mappings : PagesOf(a, n) \subseteq MappingPages(m)}

\* The mapping index once the window of n pages at a, inside the mapping m,
\* has been replaced by a mapping with the flags f: the head and the tail of
\* m that lie outside the window, the new mapping, and every other mapping.
Replaced(m, a, n, f) ==
    LET others == [b \in DOMAIN mappings \ {m} |-> mappings[b]]
        before == (a - m) \div PAGE_SIZE
        after == mappings[m].size - before - n
        entry(size, flags) == [size |-> size, flags |-> flags]
        head == IF before > 0 THEN (m :> entry(before, mappings[m].flags)) ELSE EmptyMap
        tail == IF after > 0
                THEN (AddPages(a, n) :> entry(after, mappings[m].flags))
                ELSE EmptyMap
    IN  MapAppend(MapAppend(MapAppend(Shape(others), head), tail), (a :> entry(n, f)))

\* The flags given to the maps made over an existing mapping.
NewFlags == {MAPPING_FLAG_WRITE + MAPPING_FLAG_USER, MAPPING_FLAG_USER}

\* C17: map(Fixed(addr), n) over a range inside an existing mapping succeeds
\* and returns addr; the mapping index then holds the head and tail of the
\* old mapping outside the range, the new mapping, and the other mappings
\* unchanged.
C17_FixedSplitsMapping ==
    \A a \in Pages : \A n \in Sizes : \A f \in NewFlags : \A m \in Holders(a, n) :
    \A o \in map(state, vmem_usage, "Fixed", a, n, f, Normal, 0, debug_build) :
       o.res = "ok" /\ o.out = a /\ Shape(o.st.mappings) = Replaced(m, a, n, f)

\* The gap index once the window of n pages at a has been freed and fused
\* with the gap that ends at a and the gap that begins at the window's end.
Fused(a, n) ==
    LET end == AddPages(a, n)
        prevs == {g \in DOMAIN gaps : RangeEnd(g, gaps[g]) = a}
        nexts == {g \in DOMAIN gaps : g = end}
        prev == CHOOSE g \in prevs : TRUE
        begin == IF prevs = {} THEN a ELSE prev
        size == n + (IF prevs = {} THEN 0 ELSE gaps[prev])
                  + (IF nexts = {} THEN 0 ELSE gaps[end])
        others == [g \in DOMAIN gaps \ (prevs \cup nexts) |-> gaps[g]]
    IN  MapInsert(others, begin, size)

\* C18: unmap(ptr, n, false) of a range inside a single mapping replaces the
\* freed window, the gap ending at ptr and the gap beginning at the window's
\* end by one gap covering all of them.
C18_UnmapFusesGaps ==
    \A a \in Pages : \A n \in UnmapSizes :
       Holders(a, n) # {} =>
          \A o \in unmap(state, vmem_usage, a, n, FALSE, 0, debug_build) :
             o.res = "ok" /\ o.st.gaps = Fused(a, n)

\* The pages among the k pages at b that a mapping of the index mp holds.
HeapMapped(mp, b, k) == {p \in PagesOf(b, k) : FlagsAt(mp, p) # {}}

\* C19: after set_brk_init(b) and a successful grow set_brk_ptr(b + k pages),
\* a shrink set_brk_ptr(b + j pages) with 0 <= j < k succeeds and leaves
\* exactly the pages [b, b + j pages) of the heap mapped.
C19_BrkShrink ==
    (brk_init # NULL /\ brk_ptr = brk_init) =>
       \A k \in 1..MaxPages :
       \A g \in set_brk_ptr(state, vmem_usage, brk_init, brk_ptr,
                             AddPages(brk_init, k), 0, debug_build) :
          g.o.res = "ok" =>
             \A j \in 0..(k - 1) :
             \A sh \in set_brk_ptr(g.o.st, g.o.vmem_usage, brk_init, g.brk_ptr,
                                    AddPages(brk_init, j), 0, debug_build) :
                /\ sh.o.res = "ok"
                /\ HeapMapped(sh.o.st.mappings, brk_init, k) = PagesOf(brk_init, j)

\* The pages of all the mappings of the index mp.
RECURSIVE TotalPages(_)
TotalPages(mp) ==
    IF DOMAIN mp = {} THEN 0
    ELSE LET b == CHOOSE b \in DOMAIN mp : TRUE
         IN  mp[b].size + TotalPages(MapRemove(mp, b))

\* C20: a successful unmap(ptr, n, true) leaves the two gap indices as they
\* were and takes off vmem_usage the number of pages it removed from the
\* mappings.
C20_BrkUnmapAccounts ==
    [][(ret'.op = "unmap" /\ ret'.brk /\ ret'.res = "ok")
          => /\ gaps' = gaps
             /\ gaps_size' = gaps_size
             /\ vmem_usage' = vmem_usage - (TotalPages(mappings) - TotalPages(mappings'))]_vars


\* C21: set_brk_ptr(new) with new > PROCESS_END or new < brk_init returns an
\* error and leaves brk_ptr, the indices and vmem_usage as they were; a call
\* that returns Ok was given brk_init <= new <= PROCESS_END.
C21_BrkRange ==
    \A ptr \in BrkAddrs :
    \A r \in set_brk_ptr(state, vmem_usage, brk_init, brk_ptr, ptr, 0, debug_build) :
       /\ (ptr > PROCESS_END \/ ptr < brk_init) =>
             /\ r.o.res = "err"
             /\ r.brk_ptr = brk_ptr
             /\ r.o.st = state
             /\ r.o.vmem_usage = vmem_usage
       /\ r.o.res = "ok" => (brk_init <= ptr /\ ptr <= PROCESS_END)

\* set_brk_ptr has refused a pointer after the break was initialised and
\* raised above brk_init.
C21_Witness ==
    /\ ret.op = "set_brk_ptr" /\ ret.res = "err" /\ ret.stage = "invalid"
    /\ brk_init # NULL
    /\ brk_ptr > brk_init


\* The flags of the mappings that hold the byte address a.
FlagsOver(a) == FlagsAt(mappings, down_align(a))

\* C22: handle_page_fault(addr, code) returns false exactly when no mapping
\* holds addr, or code has the WRITE bit and the mapping lacks WRITE, or code
\* has the USER bit and the mapping lacks USER; otherwise, whatever the
\* PRESENT bit of code, it returns true and the faulting page has a frame.
C22_PageFault ==
    \A a \in ByteAddrs : \A code \in FaultCodes :
    \A r \in handle_page_fault(state, phys, pm, a, code) :
       LET refuse ==
             \/ FlagsOver(a) = {}
             \/ /\ HasBit(code, PAGE_FAULT_WRITE)
                /\ \E f \in FlagsOver(a) : ~HasBit(f, MAPPING_FLAG_WRITE)
             \/ /\ HasBit(code, PAGE_FAULT_USER)
                /\ \E f \in FlagsOver(a) : ~HasBit(f, MAPPING_FLAG_USER)
       IN  ~r.panic =>
              /\ r.res = ~refuse
              /\ r.res => down_align(a) \in DOMAIN r.phys


\* C23: can_access(ptr, size, user, write) returns true exactly when every
\* byte of [ptr, ptr + size) lies in a mapping and every mapping that holds
\* one of these bytes has WRITE if write is asked and USER if user is asked,
\* wherever in a mapping ptr lies.
C23_CanAccess ==
    \A a \in ByteAddrs : \A size \in 1..(2 * PAGE_SIZE) :
    \A user \in BOOLEAN : \A write \in BOOLEAN :
    \A r \in can_access(state, a, size, user, write) :
       r = \A x \in a..(a + size - 1) :
              /\ FlagsOver(x) # {}
              /\ \A f \in FlagsOver(x) : FlagsAllow(f, user, write)


\* A mapping with the flags asked for holds the byte address x.
Authorised(x, user, write) == \E f \in FlagsOver(x) : FlagsAllow(f, user, write)

\* C24: can_access_string(ptr, user, write) reads bytes only in pages held by
\* a mapping with the flags asked for; it returns the offset n of the first
\* NUL byte when every page of [ptr, ptr + n] is so held, and None when a page
\* that is not is reached before the NUL byte.
C24_CanAccessString ==
    \A a \in ByteAddrs : \A nul \in 0..(2 * PAGE_SIZE) :
    \A user \in BOOLEAN : \A write \in BOOLEAN :
    \A r \in can_access_string(state, a, user, write, nul) :
       /\ \A x \in r.reads : Authorised(x, user, write)
       /\ r.res = IF \A x \in a..(a + nul) : Authorised(x, user, write)
                  THEN nul ELSE NoAddr


\* The pages that intersect the range of `size` bytes at the byte address a.
PagesOver(a, size) == {down_align(x) : x \in a..(a + size - 1)}

\* C25: alloc on `size` bytes at ptr gives a frame to every page that
\* intersects [ptr, ptr + size) and that a mapping holds, whether ptr is
\* page-aligned or not.
C25_AllocMaterialises ==
    \A a \in ByteAddrs : \A size \in 1..(2 * PAGE_SIZE) :
    \A r \in alloc(state, phys, pm, a, size) :
       r.res = "ok" =>
          \A p \in PagesOver(a, size) : FlagsAt(mappings, p) # {} => p \in DOMAIN r.phys

\* C26: alloc returns an error when a page of the range it is given is held
\* by no mapping.
C26_AllocUnmappedIsError ==
    \A a \in ByteAddrs : \A size \in 1..(2 * PAGE_SIZE) :
       (\E p \in PagesOver(a, size) : FlagsAt(mappings, p) = {}) =>
          \A r \in alloc(state, phys, pm, a, size) : r.res = "err"


\* C27: after a successful set_prot(addr, len, prot) every page of
\* [addr, addr + len) that a mapping holds is held with the flags prot, and
\* the pages outside the range are held with the flags they had.
C27_SetProt ==
    \A a \in UserAddrs : \A len \in {PAGE_SIZE, 2 * PAGE_SIZE} : \A prot \in PagingFlags :
       LET r == set_prot(state, a, len, prot)
       IN  r.res = "ok" =>
              /\ \A p \in PagesOver(a, len) :
                    FlagsAt(r.st.mappings, p) \subseteq {prot}
              /\ \A p \in AllPages \ PagesOver(a, len) :
                    FlagsAt(r.st.mappings, p) = FlagsAt(mappings, p)


\* The page-table context of the memory space the calls are made on, among
\* the contexts of one fork.
OwnVmem == 0

\* C28: the memory space a successful fork returns has the gap indices of
\* the parent, one mapping for each mapping of the parent with the same
\* begin, size and flags, the vmem_usage, brk_init and brk_ptr of the parent,
\* and a page-table context that is not the parent's.
C28_ForkCopies ==
    \A s \in child :
       /\ ret.op = "fork" /\ ret.res = "ok"
       /\ s.gaps = gaps
       /\ s.gaps_size = gaps_size
       /\ Shape(s.mappings) = Shape(mappings)
       /\ s.vmem_usage = vmem_usage
       /\ s.brk_init = brk_init
       /\ s.brk_ptr = brk_ptr
       /\ s.vmem # OwnVmem

\* fork has returned the copy of a memory space that has a mapping and a
\* break.
C28_Witness ==
    /\ child # {}
    /\ ret.op = "fork" /\ ret.res = "ok"
    /\ DOMAIN mappings # {}
    /\ brk_ptr # NULL


\* The number of (memory space, page) pairs that reference each frame: the
\* pages of the memory space the calls are made on, of the memory space fork
\* has just returned, and of the other memory spaces.
ChildRefs == IF child = {} THEN EmptyMap ELSE Refs((CHOOSE s \in child : TRUE).phys)
AllRefs == AddRefs(AddRefs(Refs(phys), ChildRefs), other_refs)

\* C29: the count the physical reference counter holds for a frame that backs
\* a page of a mapping, whatever the residence, is the number of (memory
\* space, page) pairs that reference the frame.
C29_RefCounts ==
    \A f \in DOMAIN AllRefs : RefCount(ref_counter, f) = AllRefs[f]


\* C30: for the Normal residence, a successful alloc_page returns a frame
\* taken from the allocator whose count is 1; free_page takes one from the
\* count of the frame and gives the frame back to the allocator exactly when
\* the count has reached zero; no frame is given back while it has a count,
\* nor when the allocator already holds it.
C30_AnonymousFrames ==
    /\ [][/\ (ret'.op = "alloc_page" /\ ret'.c = "Normal" /\ ret'.res = "ok") =>
                /\ ret'.out \in buddy
                /\ ret'.out \notin buddy'
                /\ RefCount(ref_counter', ret'.out) = 1
          /\ (ret'.op = "free_page" /\ ret'.c = "Normal") =>
                /\ RefCount(ref_counter', ret'.out) = RefCount(ref_counter, ret'.out) - 1
                /\ ret'.out \in buddy' <=> RefCount(ref_counter', ret'.out) = 0
                /\ buddy' \ {ret'.out} = buddy]_vars
    /\ [](~bad_free /\ \A f \in buddy : RefCount(ref_counter, f) = 0)

\* free_page has left with the mapping that shares it a frame whose count was
\* two.
C30_Witness ==
    /\ ret.op = "free_page" /\ ret.c = "Normal"
    /\ RefCount(ref_counter, ret.out) = 1
    /\ ret.out \notin buddy


\* What page i of a residence denotes: the byte offset in the file, the page
\* offset in the swap slot, the frame of the sequence (none past its end,
\* where alloc_page falls back to the allocator), nothing for Normal.
Backing(res, i) ==
    CASE res.kind = "File" -> <<"File", res.off + i * PAGE_SIZE>>
      [] res.kind = "Swap" -> <<"Swap", res.off + i>>
      [] res.kind = "Static" ->
            <<"Static", IF i < Len(res.pages) THEN res.pages[i + 1] ELSE NoFrame>>
      [] OTHER -> <<"Normal", 0>>

\* What the page p denotes in the mappings of the index mp that hold it.
BackingAt(mp, p) ==
    {Backing(mp[b].residence, (p - b) \div PAGE_SIZE) :
        b \in {x \in DOMAIN mp : p \in PagesOf(x, mp[x].size)}}

\* C31: for the residence of every mapping, page i of the residence after
\* offset_add(k) denotes what page i + k denoted before; and after a
\* successful unmap, every page outside the range that a mapping held denotes
\* in the fragment that holds it what it denoted before.
C31_OffsetAdd ==
    /\ \A b \in DOMAIN mappings :
       \A k \in 1..(mappings[b].size - 1) : \A i \in 0..(mappings[b].size - 1 - k) :
          Backing(offset_add(mappings[b].residence, k), i)
             = Backing(mappings[b].residence, i + k)
    /\ \A a \in UserAddrs : \A n \in PagingSizes :
       \A o \in unmap(state, vmem_usage, a, n, FALSE, 0, debug_build) :
          o.res = "ok" =>
             \A p \in AllPages \ PagesOf(a, n) :
                BackingAt(mappings, p) \subseteq BackingAt(o.st.mappings, p)


\* The transactions that unmap(a, n, brk) stages without failure.
Staged(a, n, brk) == {w.t : w \in {x \in unmap_impl(state, a, n, brk, 0) : x.err = ""}}

\* The transaction t removes a gap and a mapping at addresses at which it
\* also buffers a gap and a mapping.
RemovesAndBuffers(t) ==
    /\ t.remove_gaps \cap DOMAIN t.buffer_state.gaps \cap DOMAIN gaps # {}
    /\ t.remove_mappings \cap DOMAIN t.buffer_state.mappings \cap DOMAIN mappings # {}

\* C32: commit of a transaction staged by an unmap in the user range leaves every buffered gap, size key
\* and mapping in the live state with its buffered value, also at an address
\* that is in a removal set; an address of a removal set that is not buffered
\* holds no entry; the entries at other addresses are as they were.
C32_CommitOrder ==
    \A a \in UserPages : \A n \in Sizes : \A brk \in BOOLEAN :
    \A t \in Staged(a, n, brk) :
       LET c == commit(t, state)
           b == t.buffer_state
       IN  /\ \A g \in DOMAIN b.gaps : g \in DOMAIN c.gaps /\ c.gaps[g] = b.gaps[g]
           /\ b.gaps_size \subseteq c.gaps_size
           /\ \A m \in DOMAIN b.mappings :
                 m \in DOMAIN c.mappings /\ c.mappings[m] = b.mappings[m]
           /\ \A g \in t.remove_gaps \ DOMAIN b.gaps : g \notin DOMAIN c.gaps
           /\ \A m \in t.remove_mappings \ DOMAIN b.mappings : m \notin DOMAIN c.mappings
           /\ \A g \in DOMAIN gaps \ (t.remove_gaps \cup DOMAIN b.gaps) :
                 g \in DOMAIN c.gaps /\ c.gaps[g] = gaps[g]
           /\ \A m \in DOMAIN mappings \ (t.remove_mappings \cup DOMAIN b.mappings) :
                 m \in DOMAIN c.mappings /\ c.mappings[m] = mappings[m]

\* After an unmap that cut a mapping, an unmap can be staged that removes and
\* buffers a gap at one address and a mapping at one address.
C32_Witness ==
    /\ ret.op = "unmap" /\ ret.res = "ok" /\ ret.cut > 0
    /\ \E a \in UserPages : \E n \in Sizes : \E t \in Staged(a, n, FALSE) :
          RemovesAndBuffers(t)


\* C33: insert_gap either leaves the gap in both gap indices or, when one of
\* its two index inserts fails, returns the error with both indices as they
\* were, also when a gap begins at the same address; remove_gap takes the gap
\* beginning at the address out of both indices and changes nothing when
\* there is none.
C33_GapIndicesInSync ==
    /\ \A b \in UserPages : \A n \in Sizes : \A oom \in 0..2 :
          LET r == insert_gap(state, [begin |-> b, size |-> n], 0, oom)
          IN  /\ r.err = "" =>
                    /\ b \in DOMAIN r.st.gaps /\ r.st.gaps[b] = n
                    /\ <<n, b>> \in r.st.gaps_size
              /\ r.err # "" => r.st = state
    /\ \A b \in Pages :
          LET s == remove_gap(state, b)
          IN  IF b \in DOMAIN gaps
              THEN /\ s.gaps = [x \in DOMAIN gaps \ {b} |-> gaps[x]]
                   /\ s.gaps_size = gaps_size \ {<<gaps[b], b>>}
                   /\ s.mappings = mappings
              ELSE s = state


\* The begin addresses of the gaps of at least n pages, and the one of them
\* of minimal size and, among those of that size, of lowest address.
Fitting(n) == {b \in DOMAIN gaps : gaps[b] >= n}
BestFit(n) == CHOOSE b \in Fitting(n) : \A o \in Fitting(n) : KeyLeq(<<gaps[b], b>>, <<gaps[o], o>>)

\* C34: get_gap(n) returns none exactly when no gap has at least n pages, and
\* otherwise the gap of minimal size among the gaps of at least n pages, of
\* lowest begin address among those of that size; map(None, n) places the
\* mapping at the begin address of that gap.
C34_GetGap ==
    \A n \in Sizes :
       LET g == get_gap(state, n, debug_build)
       IN  /\ g.res = "none" <=> Fitting(n) = {}
           /\ Fitting(n) # {} =>
                 /\ g.res = "some" /\ g.begin = BestFit(n) /\ g.size = gaps[BestFit(n)]
                 /\ \A f \in Flags :
                    \A o \in map(state, vmem_usage, "None", NULL, n, f, Normal, 0, debug_build) :
                       o.res = "ok" /\ o.out = BestFit(n)


\* The pages of the gaps of the index gp.
GapPagesOf(gp) == UNION {PagesOf(b, gp[b]) : b \in DOMAIN gp}

\* C35: a successful map(Fixed(addr), n) leaves every page outside
\* [addr, addr + n pages) as it was: inside a gap if it was inside a gap,
\* held by a mapping if it was held by a mapping.
C35_FixedFrame ==
    \A a \in Pages : \A n \in Sizes : \A f \in Flags :
    \A o \in map(state, vmem_usage, "Fixed", a, n, f, Normal, 0, debug_build) :
       o.res = "ok" =>
          \A p \in AllPages \ PagesOf(a, n) :
             /\ p \in AllGapPages <=> p \in GapPagesOf(o.st.gaps)
             /\ FlagsAt(mappings, p) # {} <=> FlagsAt(o.st.mappings, p) # {}


\* C36: vmem_usage is at least the number of pages the mappings hold, and no
\* call takes more pages off vmem_usage than it holds.
C36_VmemNoUnderflow ==
    /\ vmem_usage >= TotalPages(mappings)
    /\ ret.stage # "vmem_usage"


\* C37: set_brk_ptr(p) that returns Ok leaves brk_ptr = p, and set_brk_ptr
\* that returns an error leaves brk_ptr as it was, for growing and shrinking
\* calls and for aligned and unaligned pointers.
C37_BrkPtrSet ==
    \A ptr \in BrkAddrs :
    \A r \in set_brk_ptr(state, vmem_usage, brk_init, brk_ptr, ptr, 0, debug_build) :
       /\ r.o.res = "ok" => r.brk_ptr = ptr
       /\ r.o.res = "err" => r.brk_ptr = brk_ptr


\* C38: a growing set_brk_ptr(p), brk_ptr <= p <= PROCESS_END, with p below
\* brk_ptr rounded up to a page, computes no page count from the negative
\* difference p - align(brk_ptr): it does not panic and maps nothing.
C38_BrkGrowNoUnderflow ==
    \A ptr \in BrkAddrs :
       (ptr >= brk_ptr /\ ptr <= PROCESS_END /\ ptr < AlignUp(brk_ptr)) =>
          \A r \in set_brk_ptr(state, vmem_usage, brk_init, brk_ptr, ptr, 0, debug_build) :
             /\ r.o.res = "ok"
             /\ r.o.st = state
             /\ r.o.vmem_usage = vmem_usage


\* The loop of unmap_impl on the range of n pages at a is over in the walk w.
WalkDone(n, w) == w.err # "" \/ w.i >= n

\* From the walk w on, reached after k iterations, the loop of unmap_impl on
\* the range of n pages at a makes at most n - k iterations, and each
\* iteration raises the page index, by one when no mapping holds the page and
\* otherwise by the number of pages cut, at least one and at most the number
\* of pages left in the request.
RECURSIVE WalkAdvances(_, _, _, _, _)
WalkAdvances(a, n, brk, w, k) ==
    WalkDone(n, w) \/
       /\ k < n
       /\ \A w2 \in unmap_iter(state, a, n, brk, 0, w) :
             /\ w2.i > w.i /\ w2.i <= n
             /\ w2.cut = w.cut => w2.i = w.i + 1
             /\ w2.cut # w.cut => (w2.i - w.i) \in 1..(n - w.i)
             /\ w2.freed - w.freed \in {0, w2.i - w.i}
             /\ WalkAdvances(a, n, brk, w2, k + 1)

\* C39: the loop of unmap(a, n, brk) ends after at most n iterations, each of
\* which raises the page index by at least one and never past n: by one when
\* no mapping holds the page, otherwise by the number of pages cut from the
\* mapping that holds it.
C39_UnmapTerminates ==
    \A a \in Pages : \A n \in UnmapSizes : \A brk \in BOOLEAN :
       WalkAdvances(a, n, brk, StartWalk, 0)

\* An unmap has cut two mappings in one walk and returned Ok.
C39_Witness ==
    /\ ret.op = "unmap" /\ ret.res = "ok" /\ ret.cut >= 2
    /\ DOMAIN mappings # {}


\* The threads at one of the positions pcs of a call on the frame f.
ThreadsAt(f, pcs) == {t \in Threads : threads[t].frame = f /\ threads[t].pc \in pcs}

\* The references to the frame f that are held: by mappings, by threads that
\* are in free_page and have not decremented the count yet, and by threads
\* that have incremented it in alloc_page and have not returned yet.
Held(f) ==
    RefCount(other_refs, f)
       + Cardinality(ThreadsAt(f, {"free_lock", "free_decrement"}))
       + Cardinality(ThreadsAt(f, {"alloc_unlock"}))

\* C40: under every interleaving of threads in free_page and alloc_page of
\* the Normal residence, the count of a frame is the number of references
\* held; a frame the allocator holds has no count and no holder, and no
\* frame is given back to the allocator that it holds or that has a count; a
\* frame taken by alloc has no count until alloc increments it; a frame with
\* no count that no thread is working on is with the allocator; and a thread
\* between the decrement and the end of free holds the lock of the counter.
C40_ConcurrentFree ==
    /\ ~bad_free
    /\ \A f \in Frames :
          /\ RefCount(ref_counter, f) = Held(f)
          /\ f \in buddy =>
                /\ RefCount(ref_counter, f) = 0
                /\ ThreadsAt(f, {"free_lock", "free_decrement", "free_can_free",
                                 "free_buddy", "alloc_lock", "alloc_increment",
                                 "alloc_unlock"}) = {}
          /\ ThreadsAt(f, {"alloc_lock", "alloc_increment"}) # {} =>
                RefCount(ref_counter, f) = 0
          /\ Cardinality(ThreadsAt(f, {"alloc_lock", "alloc_increment", "alloc_unlock"})) <= 1
          /\ (RefCount(ref_counter, f) = 0 /\ {t \in Threads : threads[t].frame = f} = {})
                => f \in buddy
    /\ \A t \in Threads :
          threads[t].pc \in {"free_decrement", "free_can_free", "free_buddy",
                             "free_unlock", "alloc_increment", "alloc_unlock"}
             => mutex = t

\* Two threads are in free_page on the same frame, whose count was two: one
\* has decremented it under the lock and leaves the frame alone, the other
\* waits for the lock, while a third thread is in alloc_page with a frame it
\* took from the allocator.
C40_Witness ==
    \E t1, t2, t3 \in Threads : \E f \in Frames :
       /\ threads[t1] = [pc |-> "free_unlock", frame |-> f]
       /\ threads[t2] = [pc |-> "free_lock", frame |-> f]
       /\ threads[t3].pc = "alloc_lock"
       /\ RefCount(ref_counter, f) = 1
       /\ f \notin buddy

====
